---------------------------- MODULE Spec2Model ----------------------------
(***************************************************************************)
(* A model of the SurveyEase survey conversation engine                    *)
(* (se-backend/graph/survey_graph.py driven by se-backend/api/survey.py).  *)
(*                                                                         *)
(* One session is modelled.  Its state is the SurveyGraphState record the  *)
(* graph nodes read and return (messages, current_step_messages,           *)
(* current_step, current_step_finish), the node the executor runs next     *)
(* (pc), the frames streamed by the request in progress and the last       *)
(* checkpoint the executor committed.  Texts are sequences of one-letter   *)
(* strings so that upper(), lower(), substring tests and int() are         *)
(* computed, not assumed.                                                  *)
(***************************************************************************)
EXTENDS Integers, Sequences, FiniteSets, TLC

VARIABLES
    steps,                  \* the session's step list (state["steps"])
    max_turns,              \* state["max_turns"]
    messages,               \* state["messages"]
    current_step_messages,  \* state["current_step_messages"]
    current_step,           \* state["current_step"]
    current_step_finish,    \* state["current_step_finish"]
    pc,                     \* the node the graph executor runs next
    running,                \* TRUE while an HTTP request drives the graph
    frames,                 \* frames streamed by the request in progress
    response_content,       \* text the oracle returned to the question node
    condition_call,         \* the Condition Evaluator call made while routing
    checkpoint,             \* last state committed by the graph executor
    template_graph_cache,   \* each replica's template_graph_cache dict
    request,                \* the HTTP request served last and its status
    message_rows,           \* rows ChatService.save_message has inserted
    saved_message_count,    \* the counter local to process_survey_stream
    chat_logs,              \* transcripts handed to ChatLogger.save_chat_log
    concurrent,             \* a second /chat/continue served at the same time
    redis,                  \* the keys of the Redis store and what they hold
    ttl,                    \* RedisCheckpointer.ttl
    now,                    \* the time the store and datetime.now() see
    puts,                   \* the put call each writer is in
    put_count,              \* put calls started so far
    purge_count,            \* clear_thread_state calls made so far
    last_op,                \* the store operation that made the last step
    last_put,               \* per thread: what its last completed put stored
    call                    \* a function applied to an argument, and its result

\* the SurveyGraphState fields and the executor's position
graphVars == << steps, max_turns, messages, current_step_messages, current_step,
                current_step_finish, pc, running, frames, response_content,
                condition_call, checkpoint >>

\* what the API layer keeps around the graph
apiVars == << template_graph_cache, request, message_rows, saved_message_count,
              chat_logs, concurrent >>

\* RedisCheckpointer and the store behind it
storeVars == << redis, ttl, now, puts, put_count, purge_count, last_op, last_put >>

vars == << graphVars, apiVars, storeVars, call >>

(***************************************************************************)
(* Bounds of the model.                                                    *)
(***************************************************************************)
MaxSteps == 3        \* templates have 1..MaxSteps steps
MaxTurnsBound == 2   \* max_turns ranges over 1..MaxTurnsBound
MaxMessages == 9     \* nodes stop appending once messages is this long
MaxRetries == 1      \* retries of failed requests whose rows are kept apart
MaxStepsShort == 2   \* steps of the templates used with faults and races
MaxPuts == 2         \* put calls made on the store
MaxPurges == 1       \* clear_thread_state calls made on the store
MaxTime == 2         \* the store's clock runs from 0 to MaxTime
TtlSeconds == 2      \* the ttl of a RedisCheckpointer built with one
MaxItems == 2        \* items of the lists and tuples given to the cleaning
MaxDepth == 2        \* containers nested around them
MaxTextLen == 6      \* characters of a text given to the substitution

(***************************************************************************)
(* Texts.                                                                  *)
(***************************************************************************)
LowerLetters == << "a","b","c","d","e","f","g","h","i","j","k","l","m",
                   "n","o","p","q","r","s","t","u","v","w","x","y","z" >>
UpperLetters == << "A","B","C","D","E","F","G","H","I","J","K","L","M",
                   "N","O","P","Q","R","S","T","U","V","W","X","Y","Z" >>
Digits == << "0","1","2","3","4","5","6","7","8","9" >>

UpperChar(c) ==
    IF \E k \in 1..26 : LowerLetters[k] = c
    THEN UpperLetters[CHOOSE k \in 1..26 : LowerLetters[k] = c]
    ELSE c

LowerChar(c) ==
    IF \E k \in 1..26 : UpperLetters[k] = c
    THEN LowerLetters[CHOOSE k \in 1..26 : UpperLetters[k] = c]
    ELSE c

\* str.upper() and str.lower()
Upper(s) == [k \in 1..Len(s) |-> UpperChar(s[k])]
Lower(s) == [k \in 1..Len(s) |-> LowerChar(s[k])]

\* sub in s
Contains(s, sub) ==
    \E k \in 0..(Len(s) - Len(sub)) : SubSeq(s, k + 1, k + Len(sub)) = sub

IsDigit(c) == \E k \in 1..10 : Digits[k] = c
DigitValue(c) == (CHOOSE k \in 1..10 : Digits[k] = c) - 1

RECURSIVE DigitsValue(_)
DigitsValue(s) ==
    IF s = << >> THEN 0
    ELSE 10 * DigitsValue(SubSeq(s, 1, Len(s) - 1)) + DigitValue(s[Len(s)])

\* int(s): an optional sign followed by one or more decimal digits;
\* anything else raises ValueError.
IntParses(s) ==
    LET body == IF s # << >> /\ s[1] \in {"+", "-"} THEN Tail(s) ELSE s
    IN  body # << >> /\ \A k \in 1..Len(body) : IsDigit(body[k])

IntOf(s) ==
    IF s[1] = "-" THEN 0 - DigitsValue(Tail(s))
    ELSE IF s[1] = "+" THEN DigitsValue(Tail(s))
    ELSE DigitsValue(s)

DigitText(k) == << Digits[k + 1] >>

FINISH == << "F","I","N","I","S","H" >>
END_TEXT == << "E","N","D" >>
LINEAR_TEXT == << "l","i","n","e","a","r" >>

(***************************************************************************)
(* Templates: the inputs of a session.                                     *)
(***************************************************************************)
LinearTypes == { LINEAR_TEXT, Upper(LINEAR_TEXT) }
ConditionTypes == { << "c","o","n","d","i","t","i","o","n" >> }

\* Branch values a template may carry: END in two letter cases, text that
\* is no number, a negative number, 0, and the step numbers 1..MaxSteps+1.
BranchVals ==
    { END_TEXT, Lower(END_TEXT), << "x" >>, << "-", "1" >>, << "0" >> }
    \cup { DigitText(k) : k \in 1..(MaxSteps + 1) }

StepContent(i) == << "#", Digits[i + 1] >>      \* steps[i]["content"]
StepCondition(i) == << "p", Digits[i + 1] >>    \* steps[i]["condition"]

\* branches is any list of strings (template.py: branches: List[str] = []);
\* nothing checks its length when a template is stored or a session starts.
BranchLists ==
    { << >> } \cup { << b >> : b \in BranchVals } \cup (BranchVals \X BranchVals)

LinearShapes == [type : LinearTypes, branches : { << >> }]
ConditionShapes == [type : ConditionTypes, branches : BranchLists]

IsLinear(step) == Lower(step.type) = LINEAR_TEXT

\* Templates of 1..MaxSteps steps of which at most one is a CONDITION step.
Templates ==
    UNION { [1..n -> LinearShapes]
            \cup { [t EXCEPT ![p] = c] :
                     t \in [1..n -> LinearShapes], p \in 1..n, c \in ConditionShapes }
            : n \in 1..MaxSteps }

WELCOME == << "h","i" >>
END_MESSAGE == << "b","y","e","\n" >>
SYSTEM_PROMPT == << "s","y","s" >>
FIRST_MESSAGE == << "h","e","l","l","o" >>

AIMessage(content) == [tag |-> "AI", content |-> content]
HumanMessage(content) == [tag |-> "HUMAN", content |-> content]
SystemMessage(content) == [tag |-> "SYSTEM", content |-> content]

\* What the oracle may answer to a question node and to the evaluator.
OracleTexts ==
    { << "a","s","k","\"" >>, FINISH, << "o","k"," ","f","i","n","i","s","h" >> }
VerdictTexts == { << "Y" >>, << "N" >>, << "t","r","u","e" >>, << "N","o" >> }
NoFinishTexts == { t \in OracleTexts : ~Contains(Upper(t), FINISH) }
UserReplies == { << "r" >> }
ConcurrentReplies == { << "s" >> }

NoCall == [made |-> FALSE, raised |-> FALSE]

\* The API layer: replicas of the service, each with its own
\* template_graph_cache dict, and the ids requests carry.  The session is
\* started on StartReplica; OTHER_CONVERSATION is an id no /chat/stream
\* has ever used.
Replicas == { "A", "B" }
StartReplica == "A"
TEMPLATE_ID == << "t" >>
CONVERSATION_ID == << "c" >>
OTHER_CONVERSATION == << "u" >>
ConversationIds == { CONVERSATION_ID, OTHER_CONVERSATION }

\* request.template_id + conversation_id
CacheKey(template_id, conversation_id) == template_id \o conversation_id

EmptyCache == [k \in { } |-> k]

Cached(replica, conversation_id) ==
    CacheKey(TEMPLATE_ID, conversation_id) \in DOMAIN template_graph_cache[replica]

\* a request the framework answered by streaming (200) or, for an exception
\* that left the handler, by its default 500 response
Served(replica, conversation_id, status) ==
    [replica |-> replica, conversation_id |-> conversation_id, status |-> status]

NoRequest == [active |-> FALSE]

Node(kind, i) == [kind |-> kind, step |-> i]


\* current_step is the label "0_q" in the initial state (survey.py) and an
\* integer step index once a node has returned.
InitialLabel == [label |-> TRUE, index |-> 0]
StepIndex(i) == [label |-> FALSE, index |-> i]

EndSurveyNode == Node("end_survey", 0)
EndNode == Node("END", 0)

Last(s) == s[Len(s)]

(***************************************************************************)
(* The node functions and routing functions of SurveyGraph.                *)
(***************************************************************************)

\* _generate_question: the per-step transcript the node works on, after the
\* reset on a step change and the injection of the step instruction.  The
\* node bound to step_index exists only for step_index < len(steps), so the
\* instruction is always steps[step_index]["content"].  messages.append
\* changes the list the returned state holds, so the instruction is in
\* messages on both exits of the node.
StepInstruction(i) == AIMessage(steps[i + 1].content)

\* Variant: the transcript is kept when the step index changes.
ResetOnStepChangeNever(i, cs, csm) == csm

ResetOnStepChange(i, cs, csm) == IF cs # StepIndex(i) THEN << >> ELSE csm

QuestionTranscript(i, cs, csm) ==
    LET kept == ResetOnStepChange(i, cs, csm)
    IN  IF Len(kept) = 0 THEN << StepInstruction(i) >> ELSE kept

QuestionMessages(i, cs, csm, msgs) ==
    IF Len(ResetOnStepChange(i, cs, csm)) = 0
    THEN Append(msgs, StepInstruction(i))
    ELSE msgs

\* Variant: FINISH is matched in upper case only.
IsFinishCaseSensitive(text, transcript, mt) ==
    Contains(text, FINISH) \/ Len(transcript) >= mt * 2 + 1

\* Variant: the turn bound is tested with > instead of >=.
IsFinishStrictBound(text, transcript, mt) ==
    Contains(Upper(text), FINISH) \/ Len(transcript) > mt * 2 + 1

\* is_finish of _generate_question
IsFinish(text, transcript, mt) ==
    Contains(Upper(text), FINISH) \/ Len(transcript) >= mt * 2 + 1

\* Variant: a finished step keeps its transcript.
FinishedKeepsTranscript(is_finish, transcript, ai_response) ==
    IF is_finish THEN transcript ELSE Append(transcript, ai_response)

\* "current_step_messages" of the state _generate_question returns
UpdatedTranscript(is_finish, transcript, ai_response) ==
    IF is_finish THEN << >> ELSE Append(transcript, ai_response)

\* _should_continue_for_linear
ShouldContinueForLinear(cs, finish, n) ==
    IF ~finish THEN Node("q", cs)
    ELSE IF cs + 1 < n THEN Node("q", cs + 1)
    ELSE EndSurveyNode

\* The verdict test of _get_next_step (VerdictTexts carry no surrounding
\* white space, so strip() changes nothing)
VerdictYes(text) ==
    LET result == Lower(text)
    IN  \/ Contains(result, << "y" >>)
        \/ Contains(result, << "y","e","s" >>)
        \/ Contains(result, << "t","r","u","e" >>)

\* Variant: the branch number is used as a 0-based index.
GetNextStepZeroBased(step, text) ==
    LET want == IF VerdictYes(text) THEN 1 ELSE 2
    IN  IF Len(step.branches) < want
        THEN [kind |-> "raise", value |-> 0]
        ELSE LET selected_branch == step.branches[want]
             IN  IF Upper(selected_branch) = END_TEXT
                 THEN [kind |-> "END", value |-> 0]
                 ELSE IF IntParses(selected_branch)
                 THEN [kind |-> "int", value |-> IntOf(selected_branch)]
                 ELSE [kind |-> "END", value |-> 0]

\* _get_next_step: "END", a step index, or a raised IndexError when the
\* selected branch does not exist.
GetNextStep(step, text) ==
    LET want == IF VerdictYes(text) THEN 1 ELSE 2
    IN  IF Len(step.branches) < want
        THEN [kind |-> "raise", value |-> 0]
        ELSE LET selected_branch == step.branches[want]
             IN  IF Upper(selected_branch) = END_TEXT
                 THEN [kind |-> "END", value |-> 0]
                 ELSE IF IntParses(selected_branch)
                 THEN [kind |-> "int", value |-> IntOf(selected_branch) - 1]
                 ELSE [kind |-> "END", value |-> 0]

\* Variant: the step index is not checked against the step list.
RouteConditionStepUnchecked(step, text, n) ==
    LET next_step_result == GetNextStep(step, text)
    IN  IF next_step_result.kind = "int"
        THEN Node("q", next_step_result.value)
        ELSE EndSurveyNode

\* _route_condition_step
RouteConditionStep(step, text, n) ==
    LET next_step_result == GetNextStep(step, text)
    IN  IF next_step_result.kind = "int"
        THEN IF next_step_result.value < 0 \/ next_step_result.value >= n
             THEN EndSurveyNode
             ELSE Node("q", next_step_result.value)
        ELSE EndSurveyNode

\* _assemble_conversation_context
AssembleConversationContext(csm) ==
    IF csm = << >> THEN << << "none", << >> >> >>
    ELSE [k \in 1..Len(csm) |->
            << IF csm[k].tag = "HUMAN" THEN "user" ELSE "ai", csm[k].content >>]

\* json.dumps(content, ensure_ascii=False) of a string: the quote, the
\* backslash and the newline are escaped, every other character is kept.
EscapeCharRaw(c) == << c >>

EscapeChar(c) ==
    CASE c = "\"" -> << "\\", "\"" >>
      [] c = "\\" -> << "\\", "\\" >>
      [] c = "\n" -> << "\\", "n" >>
      [] OTHER -> << c >>

RECURSIVE Escaped(_)
Escaped(text) ==
    IF text = << >> THEN << >>
    ELSE EscapeChar(Head(text)) \o Escaped(Tail(text))

json_dumps(text) == << "\"" >> \o Escaped(text) \o << "\"" >>

\* f"data: {json.dumps(content, ensure_ascii=False)}\n\n"
DATA_PREFIX == << "d","a","t","a",":"," " >>
DataFrame(content) == DATA_PREFIX \o json_dumps(content) \o << "\n", "\n" >>

\* process_survey_stream: the frame streamed for one node update
StreamChunk(msgs) ==
    IF msgs # << >> /\ Last(msgs).tag = "AI"
    THEN << DataFrame(Last(msgs).content) >>
    ELSE << >>

\* The text of the frame streamed for an exception.
ERROR_MESSAGE == << "e","r","r","o","r" >>
ErrorFrame == DataFrame(ERROR_MESSAGE)

Checkpoint(msgs, csm, cs, finish, next) ==
    [messages |-> msgs, current_step_messages |-> csm, current_step |-> cs,
     current_step_finish |-> finish, next |-> next]

\* process_survey_stream, for one node update: a row is inserted for every
\* message beyond saved_message_count that is no system message, and the
\* counter moves to the length of the list.
NewRows(msgs, count) ==
    Cardinality({ k \in (count + 1)..Len(msgs) : msgs[k].tag # "SYSTEM" })

SavedAfter(msgs, count) == IF Len(msgs) > count THEN Len(msgs) ELSE count

StreamNodeUpdate(msgs) ==
    /\ frames' = frames \o StreamChunk(msgs)
    /\ message_rows' = message_rows + NewRows(msgs, saved_message_count)
    /\ saved_message_count' = SavedAfter(msgs, saved_message_count)

(***************************************************************************)
(* RedisCheckpointer (utils/redis_checkpointer.py) and the Redis store.    *)
(* Keys are sequences of tokens: the first token stands for the key_prefix *)
(* and the kind of key, the others are the characters of the thread id     *)
(* and of the checkpoint id.                                               *)
(***************************************************************************)
ThreadIds == { << "a" >>, << "a", ":", "b" >>, << "[", "a", "]" >> }

\* The ids LangGraph gives to successive checkpoints.
CheckpointIdTexts == << << "1" >>, << "2" >>, << "3" >>, << "4" >> >>

Writers == { "w1", "w2" }

_get_thread_key(thread_id) == << "thread:" >> \o thread_id

_get_checkpoint_key(thread_id, checkpoint_id) ==
    << "checkpoint:" >> \o thread_id \o << ":" >> \o checkpoint_id

_get_checkpoint_list_key(thread_id) == << "list:" >> \o thread_id

\* Python values, as far as _clean_for_serialization tells them apart.
Prim(v) == [k |-> "prim", v |-> v]
NoneValue == [k |-> "none"]
\* A runtime handle pickle refuses (event loop, future, task, coroutine,
\* generator) and one it takes by reference (a named function or method).
Handle == [k |-> "handle", picklable |-> FALSE]
Function == [k |-> "handle", picklable |-> TRUE]
ListOf(items) == [k |-> "list", items |-> items]
TupleOf(items) == [k |-> "tuple", items |-> items]
SetOf(items) == [k |-> "set", items |-> items]
DictOf(entries) == [k |-> "dict", entries |-> entries]
ObjectOf(attrs) == [k |-> "object", attrs |-> attrs]
Entry(keytype, key, val) == [keytype |-> keytype, key |-> key, val |-> val]

\* The key types a cleaned dict keeps.
PrimitiveKeyTypes == { "str", "int", "float", "bool" }

\* pickle.dumps(obj) succeeds.
RECURSIVE Picklable(_)
Picklable(obj) ==
    CASE obj.k \in { "prim", "none" } -> TRUE
      [] obj.k = "handle" -> obj.picklable
      [] obj.k \in { "list", "tuple", "set" } ->
           \A i \in 1..Len(obj.items) : Picklable(obj.items[i])
      [] obj.k = "dict" -> \A i \in 1..Len(obj.entries) : Picklable(obj.entries[i].val)
      [] obj.k = "object" -> \A i \in 1..Len(obj.attrs) : Picklable(obj.attrs[i].val)

\* str(obj) of an object that is no data.
REPR == "repr"

RECURSIVE _clean_for_serialization(_)
_clean_for_serialization(obj) ==
    CASE obj.k \in { "prim", "none" } -> obj
      [] obj.k = "dict" ->
           LET kept(e) ==
                   /\ e.keytype \in PrimitiveKeyTypes
                   /\ \/ _clean_for_serialization(e.val) # NoneValue
                      \/ e.val = NoneValue
               entries == SelectSeq(obj.entries, kept)
           IN  DictOf([i \in 1..Len(entries) |->
                         Entry(entries[i].keytype, entries[i].key,
                               _clean_for_serialization(entries[i].val))])
      [] obj.k \in { "list", "tuple" } ->
           LET kept(item) ==
                   \/ _clean_for_serialization(item) # NoneValue
                   \/ item = NoneValue
               items == SelectSeq(obj.items, kept)
           IN  [k |-> obj.k,
                items |-> [i \in 1..Len(items) |-> _clean_for_serialization(items[i])]]
      [] obj.k = "handle" -> NoneValue
      [] obj.k = "object" ->
           LET kept(a) == a.val.k # "handle"
               attrs == SelectSeq(obj.attrs, kept)
           IN  DictOf([i \in 1..Len(attrs) |->
                         Entry("str", attrs[i].key,
                               _clean_for_serialization(attrs[i].val))])
      [] obj.k = "set" -> IF Picklable(obj) THEN obj ELSE Prim(REPR)

\* The serializer: dumps keeps what it is given, loads gives it back.
dumps(data) == [serialized |-> data]
loads(serialized_data) == serialized_data.serialized

\* Session states given to put: one of plain data, one that carries a
\* message object and runtime handles.
PlainState ==
    DictOf(<< Entry("str", "current_step", Prim("1")),
              Entry("str", "end_message", Prim("bye")) >>)

RuntimeState ==
    DictOf(<< Entry("str", "messages",
                    ListOf(<< ObjectOf(<< Entry("str", "type", Prim("human")),
                                          Entry("str", "content", Prim("r")),
                                          Entry("str", "callback", Handle) >>) >>)),
              Entry("str", "loop", Handle) >>)

StoreStates == { PlainState, RuntimeState }

\* The states of the successive checkpoints given to put.
CheckpointStates == << RuntimeState, PlainState, RuntimeState, PlainState >>

\* The checkpoint put is given: its id and the session state.
CheckpointOf(checkpoint_id, state) ==
    DictOf(<< Entry("str", "id", Prim(checkpoint_id)),
              Entry("str", "channel_values", state) >>)

EmptyStore == [key \in {} |-> key]
Persistent == [expires |-> FALSE, at |-> 0]
ExpiresAt(time) == [expires |-> TRUE, at |-> time]
NoTtl == [configured |-> FALSE, seconds |-> 0]
Ttl(seconds) == [configured |-> TRUE, seconds |-> seconds]
Idle == [pc |-> "idle"]
NoApply == [fn |-> "none"]
NoOp == [op |-> "none", thread_id |-> << >>, writer |-> "none"]
Op(op, thread_id, writer) == [op |-> op, thread_id |-> thread_id, writer |-> writer]
NoPut == [known |-> FALSE]
PutOf(given) == [known |-> TRUE, checkpoint |-> given]

(***************************************************************************)
(* Initial state: /chat/stream has built initial_state and starts the      *)
(* graph at its entry point 0_q.                                           *)
(***************************************************************************)
InitSession ==
    /\ steps \in { [k \in 1..Len(t) |->
                     [type |-> t[k].type, branches |-> t[k].branches,
                      content |-> StepContent(k - 1),
                      condition |-> StepCondition(k - 1)]] : t \in Templates }
    /\ max_turns \in 1..MaxTurnsBound
    /\ messages = << SystemMessage(SYSTEM_PROMPT), AIMessage(WELCOME),
                     HumanMessage(FIRST_MESSAGE) >>
    /\ current_step_messages = << >>
    /\ current_step = InitialLabel
    /\ current_step_finish = FALSE
    /\ pc = Node("q", 0)
    /\ running = TRUE
    /\ frames = << >>
    /\ response_content = << >>
    /\ condition_call = NoCall
    /\ checkpoint = Checkpoint(messages, << >>, InitialLabel, FALSE, Node("q", 0))
    /\ template_graph_cache =
           [replica \in Replicas |->
              IF replica = StartReplica
              THEN [k \in { CacheKey(TEMPLATE_ID, CONVERSATION_ID) } |->
                      << TEMPLATE_ID, CONVERSATION_ID >>]
              ELSE EmptyCache]
    /\ request = Served(StartReplica, CONVERSATION_ID, 200)
    /\ message_rows = Len(messages)
    /\ saved_message_count = Len(messages)
    /\ chat_logs = << >>
    /\ concurrent = NoRequest

\* The session runs on MemorySaver: the Redis store stays as it was built.
Init ==
    /\ InitSession
    /\ redis = EmptyStore
    /\ ttl = NoTtl
    /\ now = 0
    /\ puts = [w \in Writers |-> Idle]
    /\ put_count = 0
    /\ purge_count = 0
    /\ last_op = NoOp
    /\ last_put = [thread_id \in ThreadIds |-> NoPut]
    /\ call = NoApply

(***************************************************************************)
(* Node i_q: _generate_question bound to step_index = pc.step.             *)
(***************************************************************************)
QuestionWith(texts) ==
    /\ running
    /\ pc.kind = "q"
    /\ Len(QuestionMessages(pc.step, current_step, current_step_messages, messages)) + 1
         <= MaxMessages
    /\ \E text \in texts :
         LET i == pc.step
             transcript == QuestionTranscript(i, current_step, current_step_messages)
             msgs == QuestionMessages(i, current_step, current_step_messages, messages)
             is_finish == IsFinish(text, transcript, max_turns)
             ai_response == AIMessage(text)
         IN  /\ response_content' = text
             /\ current_step' = StepIndex(i)
             /\ current_step_finish' = is_finish
             /\ messages' = IF is_finish THEN msgs ELSE Append(msgs, ai_response)
             /\ current_step_messages' =
                    UpdatedTranscript(is_finish, transcript, ai_response)
    /\ pc' = Node("a", pc.step)
    /\ StreamNodeUpdate(messages')
    /\ checkpoint' = Checkpoint(messages', current_step_messages', current_step',
                                current_step_finish', pc')
    /\ condition_call' = NoCall
    /\ UNCHANGED << steps, max_turns, running, template_graph_cache, request,
                    chat_logs, concurrent >>
    /\ UNCHANGED << storeVars, call >>

Question == QuestionWith(OracleTexts)

\* The question node under an oracle that never emits FINISH.
QuestionNoFinish == QuestionWith(NoFinishTexts)

(***************************************************************************)
(* Node i_a: _get_user_answer.                                             *)
(***************************************************************************)
\* The step was marked finished: return without asking the user.
AnswerFinished ==
    /\ running
    /\ pc.kind = "a"
    /\ Len(current_step_messages) = 0 /\ current_step_finish
    /\ current_step' = StepIndex(current_step.index + 1)
    /\ pc' = Node("route", pc.step)
    /\ response_content' = << >>
    /\ condition_call' = NoCall
    /\ UNCHANGED << steps, max_turns, messages, current_step_messages,
                    current_step_finish, running, frames, checkpoint >>
    /\ UNCHANGED apiVars
    /\ UNCHANGED << storeVars, call >>

\* interrupt(state): the graph suspends and the request's stream ends.
AnswerInterrupt ==
    /\ running
    /\ pc.kind = "a"
    /\ ~(Len(current_step_messages) = 0 /\ current_step_finish)
    /\ pc' = Node("interrupt", pc.step)
    /\ running' = FALSE
    /\ response_content' = << >>
    /\ condition_call' = NoCall
    /\ UNCHANGED << steps, max_turns, messages, current_step_messages,
                    current_step, current_step_finish, frames, checkpoint >>
    /\ UNCHANGED apiVars
    /\ UNCHANGED << storeVars, call >>

\* /chat/continue on a replica whose cache holds the session's graph: the
\* reply is stored as a row and the interrupted node is resumed with it.
Continue ==
    /\ ~running
    /\ pc.kind = "interrupt"
    /\ Len(messages) < MaxMessages
    /\ \E replica \in Replicas :
         /\ Cached(replica, CONVERSATION_ID)
         /\ request' = Served(replica, CONVERSATION_ID, 200)
    /\ message_rows' = message_rows + 1
    /\ saved_message_count' = message_rows + 1
    /\ concurrent' = NoRequest
    /\ \E user_input \in UserReplies :
         LET user_message == HumanMessage(user_input)
         IN  /\ messages' = Append(messages, user_message)
             /\ current_step_messages' =
                    IF current_step_finish THEN current_step_messages
                    ELSE Append(current_step_messages, user_message)
    /\ pc' = Node("route", pc.step)
    /\ running' = TRUE
    /\ frames' = << >>
    /\ response_content' = << >>
    /\ condition_call' = NoCall
    /\ UNCHANGED << steps, max_turns, current_step, current_step_finish, checkpoint,
                    template_graph_cache, chat_logs >>
    /\ UNCHANGED << storeVars, call >>

(***************************************************************************)
(* The conditional edge of i_a: _should_continue, evaluated on the state   *)
(* the node returned.  When it returns a label the executor commits the    *)
(* node's update and moves to that node; when it raises, the update is     *)
(* dropped, the session stays at its last checkpoint and the request       *)
(* ends with an error frame.                                               *)
(***************************************************************************)
Commit(target) ==
    /\ pc' = target
    /\ StreamNodeUpdate(messages)
    /\ checkpoint' = Checkpoint(messages, current_step_messages, current_step,
                                current_step_finish, target)
    /\ response_content' = << >>
    /\ UNCHANGED << steps, max_turns, messages, current_step_messages,
                    current_step, current_step_finish, running,
                    template_graph_cache, request, chat_logs, concurrent >>
    /\ UNCHANGED << storeVars, call >>

\* state["steps"][state["current_step"]] raises IndexError
RouteIndexError ==
    /\ running
    /\ pc.kind = "route"
    /\ current_step.index >= Len(steps)
    /\ messages' = checkpoint.messages
    /\ current_step_messages' = checkpoint.current_step_messages
    /\ current_step' = checkpoint.current_step
    /\ current_step_finish' = checkpoint.current_step_finish
    /\ pc' = checkpoint.next
    /\ running' = FALSE
    /\ frames' = Append(frames, ErrorFrame)
    /\ response_content' = << >>
    /\ condition_call' = NoCall
    /\ UNCHANGED << steps, max_turns, checkpoint >>
    /\ UNCHANGED apiVars
    /\ UNCHANGED << storeVars, call >>

RouteLinear ==
    /\ running
    /\ pc.kind = "route"
    /\ current_step.index < Len(steps)
    /\ IsLinear(steps[current_step.index + 1])
    /\ condition_call' = NoCall
    /\ Commit(ShouldContinueForLinear(current_step.index, current_step_finish,
                                      Len(steps)))

RouteCondition ==
    /\ running
    /\ pc.kind = "route"
    /\ current_step.index < Len(steps)
    /\ ~IsLinear(steps[current_step.index + 1])
    /\ \E text \in VerdictTexts :
         LET step == steps[current_step.index + 1]
         IN  /\ condition_call' =
                    [made |-> TRUE,
                     raised |-> FALSE,
                     step |-> current_step.index,
                     condition |-> step.condition,
                     context |-> AssembleConversationContext(current_step_messages),
                     result |-> text]
             /\ Commit(RouteConditionStep(step, text, Len(steps)))

\* /chat/continue on a session whose last request ended in an error: the
\* reply is stored as a row again and the executor runs the pending node
\* again from the checkpoint.
ContinueAfterError ==
    /\ ~running
    /\ pc.kind \in {"a", "q"}
    /\ message_rows - Len(messages) < MaxRetries
    /\ \E replica \in Replicas :
         /\ Cached(replica, CONVERSATION_ID)
         /\ request' = Served(replica, CONVERSATION_ID, 200)
    /\ message_rows' = message_rows + 1
    /\ saved_message_count' = message_rows + 1
    /\ concurrent' = NoRequest
    /\ running' = TRUE
    /\ frames' = << >>
    /\ response_content' = << >>
    /\ condition_call' = NoCall
    /\ UNCHANGED << steps, max_turns, messages, current_step_messages,
                    current_step, current_step_finish, pc, checkpoint,
                    template_graph_cache, chat_logs >>
    /\ UNCHANGED << storeVars, call >>

(***************************************************************************)
(* Node end_survey: _end_survey.                                           *)
(***************************************************************************)
\* saved tells whether chat_logger.save_chat_log returned or raised; the
\* node catches the exception and only logs it.
\* Variant: the end message is not appended.
EndSurveyMessagesUnchanged(msgs) == msgs

\* messages = state["messages"] + [end_ai_message]
EndSurveyMessages(msgs) == Append(msgs, AIMessage(END_MESSAGE))

EndSurveyWith(saved) ==
    /\ running
    /\ pc.kind = "end_survey"
    /\ messages' = EndSurveyMessages(messages)
    /\ chat_logs' = IF saved THEN Append(chat_logs, messages') ELSE chat_logs
    /\ current_step_finish' = TRUE
    /\ pc' = EndNode
    /\ running' = FALSE
    /\ StreamNodeUpdate(messages')
    /\ checkpoint' = Checkpoint(messages', current_step_messages, current_step,
                                TRUE, EndNode)
    /\ response_content' = << >>
    /\ condition_call' = NoCall
    /\ UNCHANGED << steps, max_turns, current_step_messages, current_step,
                    template_graph_cache, request, concurrent >>
    /\ UNCHANGED << storeVars, call >>

EndSurvey == EndSurveyWith(TRUE)

Next ==
    \/ Question
    \/ AnswerFinished
    \/ AnswerInterrupt
    \/ Continue
    \/ RouteIndexError
    \/ RouteLinear
    \/ RouteCondition
    \/ ContinueAfterError
    \/ EndSurvey

Spec == Init /\ [][Next]_vars

\* The same engine driven by an oracle that never emits FINISH.
NextNoFinish ==
    \/ QuestionNoFinish
    \/ AnswerFinished
    \/ AnswerInterrupt
    \/ Continue
    \/ RouteIndexError
    \/ RouteLinear
    \/ RouteCondition
    \/ ContinueAfterError
    \/ EndSurvey

SpecNoFinish == Init /\ [][NextNoFinish]_vars

\* The sessions whose template has at most MaxStepsShort steps.
InitShort == Init /\ Len(steps) <= MaxStepsShort

(***************************************************************************)
(* Failures of the oracle and of the chat log writer.                      *)
(***************************************************************************)
\* Variant: the instruction the failed node appended in place stays in the
\* session's messages.
QuestionFailureKeepsAppend ==
    QuestionMessages(pc.step, current_step, current_step_messages, messages)

\* fast_llm.invoke raises in _generate_question: the node returns nothing,
\* so the session holds the messages of the last checkpoint.
QuestionFailureMessages == checkpoint.messages

\* The exception leaves astream_events; process_survey_stream streams one
\* error frame and the request ends.  The node stays pending.
QuestionOracleRaises ==
    /\ running
    /\ pc.kind = "q"
    /\ messages' = QuestionFailureMessages
    /\ current_step_messages' = checkpoint.current_step_messages
    /\ current_step' = checkpoint.current_step
    /\ current_step_finish' = checkpoint.current_step_finish
    /\ pc' = checkpoint.next
    /\ running' = FALSE
    /\ frames' = Append(frames, ErrorFrame)
    /\ response_content' = << >>
    /\ condition_call' = NoCall
    /\ UNCHANGED << steps, max_turns, checkpoint >>
    /\ UNCHANGED apiVars
    /\ UNCHANGED << storeVars, call >>

\* fast_llm.invoke raises in _get_next_step: _route_condition_step catches
\* the exception and returns "end_survey".
RouteConditionOracleRaises ==
    /\ running
    /\ pc.kind = "route"
    /\ current_step.index < Len(steps)
    /\ ~IsLinear(steps[current_step.index + 1])
    /\ LET step == steps[current_step.index + 1]
       IN  condition_call' =
               [made |-> FALSE,
                raised |-> TRUE,
                step |-> current_step.index,
                condition |-> step.condition,
                context |-> AssembleConversationContext(current_step_messages)]
    /\ Commit(EndSurveyNode)

EndSurveyLogFails == EndSurveyWith(FALSE)

NextFaults ==
    \/ Next
    \/ QuestionOracleRaises
    \/ RouteConditionOracleRaises
    \/ EndSurveyLogFails

SpecFaults == InitShort /\ [][NextFaults]_vars

\* The engine driven by an oracle that may also echo the injected
\* instruction: a text that starts with "# 目标" (the two characters of the
\* word are written G and L).
EchoTexts == { << "#", " ", "G", "L", "x" >> }

QuestionEcho == QuestionWith(OracleTexts \cup EchoTexts)

NextEcho ==
    \/ QuestionEcho
    \/ AnswerFinished
    \/ AnswerInterrupt
    \/ Continue
    \/ RouteIndexError
    \/ RouteLinear
    \/ RouteCondition
    \/ ContinueAfterError
    \/ EndSurvey

SpecEcho == InitShort /\ [][NextEcho]_vars

(***************************************************************************)
(* Requests the cache cannot serve, and requests served at the same time.  *)
(***************************************************************************)
\* template_graph_cache[template_id + conversation_id] raises KeyError in
\* continue_survey before any stream exists: the framework answers 500 and
\* nothing else happens.
ContinueCacheMiss ==
    /\ ~running
    /\ \E replica \in Replicas, conversation_id \in ConversationIds :
         /\ ~Cached(replica, conversation_id)
         /\ request' = Served(replica, conversation_id, 500)
    /\ UNCHANGED graphVars
    /\ UNCHANGED << template_graph_cache, message_rows, saved_message_count,
                    chat_logs, concurrent >>
    /\ UNCHANGED << storeVars, call >>

\* A second /chat/continue arrives while the first has resumed the answer
\* node but the executor has not yet committed that node: nothing guards
\* the session, so the second request stores its reply as a row, reads the
\* same suspended checkpoint and resumes the same node with its own reply.
ContinueConcurrent ==
    /\ running
    /\ pc.kind = "route"
    /\ checkpoint.next = Node("a", pc.step)
    /\ ~(Len(checkpoint.current_step_messages) = 0 /\ checkpoint.current_step_finish)
    /\ concurrent = NoRequest
    /\ \E replica \in Replicas, user_input \in ConcurrentReplies :
         /\ Cached(replica, CONVERSATION_ID)
         /\ LET user_message == HumanMessage(user_input)
            IN  concurrent' =
                  [active |-> TRUE,
                   status |-> 200,
                   committed |-> FALSE,
                   saved_message_count |-> message_rows + 1,
                   messages |-> Append(checkpoint.messages, user_message),
                   current_step_messages |->
                       IF checkpoint.current_step_finish
                       THEN checkpoint.current_step_messages
                       ELSE Append(checkpoint.current_step_messages, user_message),
                   current_step |-> checkpoint.current_step,
                   current_step_finish |-> checkpoint.current_step_finish]
    /\ message_rows' = message_rows + 1
    /\ UNCHANGED graphVars
    /\ UNCHANGED << template_graph_cache, request, saved_message_count, chat_logs >>
    /\ UNCHANGED << storeVars, call >>

\* The executor of the second request evaluates the conditional edge on
\* its own copy of the state and commits it: the checkpoint now holds the
\* second reply.  The request then runs nodes as the first one does.
ConcurrentCommit ==
    /\ concurrent # NoRequest
    /\ ~concurrent.committed
    /\ \E text \in VerdictTexts :
         LET cs == concurrent.current_step.index
             step == steps[cs + 1]
             target == IF IsLinear(step)
                       THEN ShouldContinueForLinear(cs, concurrent.current_step_finish,
                                                    Len(steps))
                       ELSE RouteConditionStep(step, text, Len(steps))
         IN  checkpoint' = Checkpoint(concurrent.messages,
                                      concurrent.current_step_messages,
                                      concurrent.current_step,
                                      concurrent.current_step_finish, target)
    /\ message_rows' = message_rows
                        + NewRows(concurrent.messages, concurrent.saved_message_count)
    /\ concurrent' = [concurrent EXCEPT !.committed = TRUE]
    /\ UNCHANGED << steps, max_turns, messages, current_step_messages, current_step,
                    current_step_finish, pc, running, frames, response_content,
                    condition_call, template_graph_cache, request,
                    saved_message_count, chat_logs >>
    /\ UNCHANGED << storeVars, call >>

NextRequests ==
    \/ Next
    \/ ContinueCacheMiss
    \/ ContinueConcurrent
    \/ ConcurrentCommit

SpecRequests == InitShort /\ [][NextRequests]_vars

(***************************************************************************)
(* The graph cache under requests of several sessions.                     *)
(***************************************************************************)
\* Ids of templates the database holds: create_template gives every
\* template str(uuid.uuid4()), so all have one length.  A request body
\* carries template_id and conversation_id as unconstrained strings;
\* /chat/stream loads the template first (404 when there is none),
\* /chat/continue looks nothing up before it reads the cache.
StoredTemplateIds == { TEMPLATE_ID, << "s" >> }
RequestTemplateIds == StoredTemplateIds \cup { TEMPLATE_ID \o CONVERSATION_ID }
RequestConversationIds == ConversationIds \cup { CONVERSATION_ID \o OTHER_CONVERSATION }

\* what a handler did with the cache: the pair of the request, and the
\* graph it stored or obtained, named by the pair whose /chat/stream built it
CacheCall(fn, replica, template_id, conversation_id, found, graph) ==
    [fn |-> fn, replica |-> replica, template_id |-> template_id,
     conversation_id |-> conversation_id, found |-> found, graph |-> graph]

InitCache ==
    /\ InitSession
    /\ Len(steps) = 1
    /\ steps[1].type = LINEAR_TEXT
    /\ max_turns = 1
    /\ redis = EmptyStore
    /\ ttl = NoTtl
    /\ now = 0
    /\ puts = [w \in Writers |-> Idle]
    /\ put_count = 0
    /\ purge_count = 0
    /\ last_op = NoOp
    /\ last_put = [thread_id \in ThreadIds |-> NoPut]
    /\ call = NoApply

\* generate_stream: template_graph_cache[request.template_id +
\* conversation_id] = survey_graph
ChatStreamStores ==
    /\ \E replica \in Replicas, template_id \in StoredTemplateIds,
          conversation_id \in RequestConversationIds :
         LET key == CacheKey(template_id, conversation_id)
             cache == template_graph_cache[replica]
             survey_graph == << template_id, conversation_id >>
         IN  /\ template_graph_cache' =
                   [template_graph_cache EXCEPT ![replica] =
                       [k \in DOMAIN cache \cup { key } |->
                          IF k = key THEN survey_graph ELSE cache[k]]]
             /\ request' = Served(replica, conversation_id, 200)
             /\ call' = CacheCall("chat_survey", replica, template_id,
                                  conversation_id, TRUE, survey_graph)
    /\ UNCHANGED graphVars
    /\ UNCHANGED << message_rows, saved_message_count, chat_logs, concurrent >>
    /\ UNCHANGED storeVars

\* continue_survey: survey_graph = template_graph_cache[template_id +
\* conversation_id]; a missing key raises KeyError (500)
ContinueLooksUp ==
    /\ \E replica \in Replicas, template_id \in RequestTemplateIds,
          conversation_id \in RequestConversationIds :
         LET key == CacheKey(template_id, conversation_id)
             cache == template_graph_cache[replica]
         IN  IF key \in DOMAIN cache
             THEN /\ request' = Served(replica, conversation_id, 200)
                  /\ call' = CacheCall("continue_survey", replica, template_id,
                                       conversation_id, TRUE, cache[key])
             ELSE /\ request' = Served(replica, conversation_id, 500)
                  /\ call' = CacheCall("continue_survey", replica, template_id,
                                       conversation_id, FALSE, << >>)
    /\ UNCHANGED graphVars
    /\ UNCHANGED << template_graph_cache, message_rows, saved_message_count,
                    chat_logs, concurrent >>
    /\ UNCHANGED storeVars

NextCache ==
    \/ ChatStreamStores
    \/ ContinueLooksUp

SpecCache == InitCache /\ [][NextCache]_vars


(***************************************************************************)
(* The operations of RedisCheckpointer on the store.                       *)
(***************************************************************************)
\* SET key value ex=ttl: the value replaces the key and its expiry.
Set(db, key, value) ==
    [k \in DOMAIN db \cup { key } |->
       IF k = key
       THEN [val |-> value,
             expire |-> IF ttl.configured THEN ExpiresAt(now + ttl.seconds)
                        ELSE Persistent]
       ELSE db[k]]

\* The expiry a write that is no SET leaves on its key: the one the key
\* had, none for a new key.
Expiry(db, key) == IF key \in DOMAIN db THEN db[key].expire ELSE Persistent

\* ZADD key {member: score}.
Zadd(db, key, member, score) ==
    LET old == IF key \in DOMAIN db THEN db[key].val ELSE [m \in {} |-> 0]
    IN  [k \in DOMAIN db \cup { key } |->
           IF k = key
           THEN [val |-> [m \in DOMAIN old \cup { member } |->
                            IF m = member THEN score ELSE old[m]],
                 expire |-> Expiry(db, key)]
           ELSE db[k]]

\* HSET key mapping.
Hset(db, key, mapping) ==
    [k \in DOMAIN db \cup { key } |->
       IF k = key THEN [val |-> mapping, expire |-> Expiry(db, key)] ELSE db[k]]

\* EXPIRE key seconds: a key that exists expires that much later.
Expire(db, key, seconds) ==
    [k \in DOMAIN db |->
       IF k = key THEN [db[k] EXCEPT !.expire = ExpiresAt(now + seconds)] ELSE db[k]]

Delete(db, keys) == [k \in DOMAIN db \ keys |-> db[k]]

\* The keys Redis holds at a time: a key whose expiry has come is gone.
Live(db, time) ==
    [k \in { key \in DOMAIN db : ~db[key].expire.expires \/ db[key].expire.at > time }
       |-> db[k]]

\* The position of the "]" that closes a class opened at the head of the
\* pattern, 0 if there is none.
ClassEnd(pattern) ==
    IF \E i \in 2..Len(pattern) : pattern[i] = "]"
    THEN CHOOSE i \in 2..Len(pattern) :
             pattern[i] = "]" /\ \A j \in 2..(i - 1) : pattern[j] # "]"
    ELSE 0

\* Redis glob matching of SCAN MATCH: "*" matches any run of characters,
\* "[...]" one character of the class, any other character itself.
RECURSIVE GlobMatch(_, _)
GlobMatch(pattern, key) ==
    IF pattern = << >> THEN key = << >>
    ELSE IF Head(pattern) = "*"
         THEN \/ GlobMatch(Tail(pattern), key)
              \/ key # << >> /\ GlobMatch(pattern, Tail(key))
    ELSE IF Head(pattern) = "[" /\ ClassEnd(pattern) > 0
         THEN /\ key # << >>
              /\ Head(key) \in { pattern[i] : i \in 2..(ClassEnd(pattern) - 1) }
              /\ GlobMatch(SubSeq(pattern, ClassEnd(pattern) + 1, Len(pattern)),
                           Tail(key))
         ELSE /\ key # << >>
              /\ Head(key) = Head(pattern)
              /\ GlobMatch(Tail(pattern), Tail(key))

\* _scan_keys when no scan call fails: every key the pattern matches.
_scan_keys(db, pattern) == { key \in DOMAIN db : GlobMatch(pattern, key) }

\* The primary nodes of the store; a single-node store is the case in
\* which the scan of all of them fails or succeeds together.
Primaries == { "n1", "n2" }

\* The primary that holds a key (the key's hash slot).
NodeOf(key) == IF Len(key) % 2 = 0 THEN "n1" ELSE "n2"

\* What _scan_keys may return: a scan call that raises is logged and the
\* keys of that node (of the whole store on a single node) are not found.
ScanOutcomes(db, pattern) ==
    { { key \in _scan_keys(db, pattern) : NodeOf(key) \notin failed } :
        failed \in SUBSET Primaries }

\* The position of a checkpoint id in the lexicographic order of members.
MemberRank(member) ==
    CHOOSE i \in 1..Len(CheckpointIdTexts) : CheckpointIdTexts[i] = member

\* Variant: the member of lowest score is taken.
ZrangeFirst(zset) ==
    CHOOSE m \in DOMAIN zset :
        \A other \in DOMAIN zset :
            \/ zset[other] > zset[m]
            \/ zset[other] = zset[m] /\ MemberRank(other) >= MemberRank(m)

\* ZREVRANGE key 0 0: the member of highest score, the greatest member on a tie.
ZrevrangeFirst(zset) ==
    CHOOSE m \in DOMAIN zset :
        \A other \in DOMAIN zset :
            \/ zset[other] < zset[m]
            \/ zset[other] = zset[m] /\ MemberRank(other) <= MemberRank(m)

\* get(config) without a checkpoint_id: the checkpoint the thread summary
\* names, else the one the list scores highest, decoded; None if any is
\* missing.
get(db, thread_id) ==
    LET thread_key == _get_thread_key(thread_id)
        list_key == _get_checkpoint_list_key(thread_id)
        latest == IF thread_key \in DOMAIN db
                  THEN db[thread_key].val.latest_checkpoint ELSE << >>
        listed == IF list_key \in DOMAIN db /\ DOMAIN db[list_key].val # {}
                  THEN ZrevrangeFirst(db[list_key].val) ELSE << >>
        checkpoint_id == IF latest # << >> THEN latest ELSE listed
        checkpoint_key == _get_checkpoint_key(thread_id, checkpoint_id)
    IN  IF checkpoint_id = << >> THEN NoneValue
        ELSE IF checkpoint_key \notin DOMAIN db THEN NoneValue
        ELSE loads(db[checkpoint_key].val).checkpoint

\* A put that is under way: the writes it still has to make.
InFlight(put) == put.pc \in { "zadd", "expire_list", "hset", "expire_thread" }

\* The puts as a write of writer w on a thread leaves them: a put of
\* another writer that is under way on that thread has been overlapped.
Overlapping(w, thread_id) ==
    [v \in Writers |->
       IF v # w /\ puts[v].pc \in { "zadd", "expire_list", "hset", "expire_thread",
                                    "raised" }
               /\ puts[v].thread_id = thread_id
       THEN [puts[v] EXCEPT !.disturbed = TRUE] ELSE puts[v]]

\* put, up to its first write: the checkpoint gets its id, is cleaned and
\* serialized, and SET stores the record.
PutSet(w, thread_id) ==
    /\ ~InFlight(puts[w])
    /\ put_count < MaxPuts
    /\ LET checkpoint_id == CheckpointIdTexts[put_count + 1]
           given == CheckpointOf(checkpoint_id, CheckpointStates[put_count + 1])
           checkpoint_data == [checkpoint |-> _clean_for_serialization(given)]
       IN  /\ redis' = Set(redis, _get_checkpoint_key(thread_id, checkpoint_id),
                           dumps(checkpoint_data))
           /\ puts' = [Overlapping(w, thread_id) EXCEPT ![w] =
                         [pc |-> "zadd", thread_id |-> thread_id,
                          checkpoint_id |-> checkpoint_id,
                          checkpoint |-> given,
                          before |-> get(redis, thread_id),
                          started |-> now,
                          disturbed |->
                              \E v \in Writers \ { w } :
                                  /\ InFlight(puts[v])
                                  /\ puts[v].thread_id = thread_id]]
    /\ put_count' = put_count + 1
    /\ last_op' = Op("set", thread_id, w)
    /\ last_put' = [last_put EXCEPT ![thread_id] = NoPut]
    /\ UNCHANGED << ttl, now, purge_count >>
    /\ UNCHANGED << graphVars, apiVars, call >>

\* A write of a put after its first: the store changes, the put moves on,
\* and when it was the last write the put returns.
PutWrite(w, op, db, next) ==
    /\ redis' = db
    /\ puts' = [Overlapping(w, puts[w].thread_id) EXCEPT ![w].pc = next]
    /\ last_op' = Op(op, puts[w].thread_id, w)
    /\ UNCHANGED << ttl, now, put_count, purge_count >>
    /\ UNCHANGED << graphVars, apiVars, call >>

\* put, second write: the checkpoint id enters the thread's list.
PutZadd(w) ==
    /\ puts[w].pc = "zadd"
    /\ PutWrite(w, "zadd",
                Zadd(redis, _get_checkpoint_list_key(puts[w].thread_id),
                     puts[w].checkpoint_id, now),
                IF ttl.configured THEN "expire_list" ELSE "hset")
    /\ last_put' = [last_put EXCEPT ![puts[w].thread_id] = NoPut]

\* put with a ttl: the list key is given the ttl.
PutExpireList(w) ==
    /\ puts[w].pc = "expire_list"
    /\ PutWrite(w, "expire_list",
                Expire(redis, _get_checkpoint_list_key(puts[w].thread_id),
                       ttl.seconds),
                "hset")
    /\ last_put' = [last_put EXCEPT ![puts[w].thread_id] = NoPut]

\* The put ran with no purge, no write of another put on its thread and
\* no expiry in between, and within the ttl of its record.
Undisturbed(put) ==
    /\ ~put.disturbed
    /\ ttl.configured => now < put.started + ttl.seconds

\* What is known of the thread's last put once put w has returned.
Returned(w) ==
    [last_put EXCEPT ![puts[w].thread_id] =
       IF Undisturbed(puts[w]) THEN PutOf(puts[w].checkpoint) ELSE NoPut]

\* put, the write of the thread summary: it names the checkpoint; without
\* a ttl put returns.
PutHset(w) ==
    /\ puts[w].pc = "hset"
    /\ PutWrite(w, "hset",
                Hset(redis, _get_thread_key(puts[w].thread_id),
                     [latest_checkpoint |-> puts[w].checkpoint_id,
                      updated_at |-> now]),
                IF ttl.configured THEN "expire_thread" ELSE "done")
    /\ last_put' = IF ttl.configured
                   THEN [last_put EXCEPT ![puts[w].thread_id] = NoPut]
                   ELSE Returned(w)

\* put with a ttl: the summary key is given the ttl; put returns.
PutExpireThread(w) ==
    /\ puts[w].pc = "expire_thread"
    /\ PutWrite(w, "expire_thread",
                Expire(redis, _get_thread_key(puts[w].thread_id), ttl.seconds),
                "done")
    /\ last_put' = Returned(w)

\* A store error or a crash between two writes of a put: the writes made
\* stay, the others are not made, put raises.
PutRaises(w) ==
    /\ InFlight(puts[w])
    /\ puts' = [puts EXCEPT ![w].pc = "raised"]
    /\ last_op' = Op("raise", puts[w].thread_id, w)
    /\ UNCHANGED << redis, ttl, now, put_count, purge_count, last_put >>
    /\ UNCHANGED << graphVars, apiVars, call >>

\* The keys clear_thread_state deletes, given what its three scans found:
\* the records the list names, the keys found for checkpoint:{thread_id}:*,
\* the list and summary keys, and the keys found for the list and summary
\* keys taken as patterns.
ClearedKeysWith(db, thread_id, found_checkpoints, found_list, found_thread) ==
    LET list_key == _get_checkpoint_list_key(thread_id)
        thread_key == _get_thread_key(thread_id)
        checkpoints == IF list_key \in DOMAIN db THEN DOMAIN db[list_key].val ELSE {}
    IN  { _get_checkpoint_key(thread_id, checkpoint_id) : checkpoint_id \in checkpoints }
          \cup found_checkpoints
          \cup { list_key, thread_key }
          \cup found_list
          \cup found_thread

\* The pattern clear_thread_state scans the records with.
CheckpointPattern(thread_id) == _get_checkpoint_key(thread_id, << "*" >>)

\* The keys clear_thread_state deletes when no scan call fails.
ClearedKeys(db, thread_id) ==
    ClearedKeysWith(db, thread_id,
                    _scan_keys(db, CheckpointPattern(thread_id)),
                    _scan_keys(db, _get_checkpoint_list_key(thread_id)),
                    _scan_keys(db, _get_thread_key(thread_id)))

\* clear_thread_state returns: the keys are deleted; every put under way
\* has been disturbed.
Cleared(thread_id, keys) ==
    /\ purge_count < MaxPurges
    /\ redis' = Delete(redis, keys)
    /\ puts' = [w \in Writers |->
                  IF InFlight(puts[w]) \/ puts[w].pc = "raised"
                  THEN [puts[w] EXCEPT !.disturbed = TRUE]
                  ELSE puts[w]]
    /\ purge_count' = purge_count + 1
    /\ last_op' = Op("purge", thread_id, "none")
    /\ last_put' = [last_put EXCEPT ![thread_id] = NoPut]
    /\ UNCHANGED << ttl, now, put_count >>
    /\ UNCHANGED << graphVars, apiVars, call >>

\* clear_thread_state when no scan call fails.
clear_thread_state(thread_id) == Cleared(thread_id, ClearedKeys(redis, thread_id))

\* clear_thread_state when scan calls may fail.
ClearWithScanErrors(thread_id) ==
    \E found_checkpoints \in ScanOutcomes(redis, CheckpointPattern(thread_id)),
       found_list \in ScanOutcomes(redis, _get_checkpoint_list_key(thread_id)),
       found_thread \in ScanOutcomes(redis, _get_thread_key(thread_id)) :
        Cleared(thread_id,
                ClearedKeysWith(redis, thread_id, found_checkpoints, found_list,
                                found_thread))

\* The store cannot be reached: the reads of clear_thread_state fail and
\* are logged, its first delete raises, and clear_thread_state raises.
ClearRaises(thread_id) ==
    /\ purge_count < MaxPurges
    /\ purge_count' = purge_count + 1
    /\ last_op' = Op("purge_raised", thread_id, "none")
    /\ UNCHANGED << redis, ttl, now, puts, put_count, last_put >>
    /\ UNCHANGED << graphVars, apiVars, call >>

\* A second passes; the keys whose expiry has come are gone, and with them
\* what is known of the threads' last puts.
Tick ==
    /\ now < MaxTime
    /\ now' = now + 1
    /\ redis' = Live(redis, now + 1)
    /\ last_op' = Op("tick", << >>, "none")
    /\ last_put' = IF redis' = redis THEN last_put
                   ELSE [thread_id \in ThreadIds |-> NoPut]
    /\ puts' = IF redis' = redis THEN puts
               ELSE [w \in Writers |->
                       IF InFlight(puts[w]) \/ puts[w].pc = "raised"
                       THEN [puts[w] EXCEPT !.disturbed = TRUE] ELSE puts[w]]
    /\ UNCHANGED << ttl, put_count, purge_count >>
    /\ UNCHANGED << graphVars, apiVars, call >>

\* A store with or without a ttl, no put made yet; the session is one at
\* its start and takes no step.
InitStore ==
    /\ InitSession
    /\ Len(steps) = 1
    /\ steps[1].type = LINEAR_TEXT
    /\ max_turns = 1
    /\ redis = EmptyStore
    /\ ttl \in { NoTtl, Ttl(TtlSeconds) }
    /\ now = 0
    /\ puts = [w \in Writers |-> Idle]
    /\ put_count = 0
    /\ purge_count = 0
    /\ last_op = NoOp
    /\ last_put = [thread_id \in ThreadIds |-> NoPut]
    /\ call = NoApply

NextStore ==
    \/ \E w \in Writers, thread_id \in ThreadIds : PutSet(w, thread_id)
    \/ \E w \in Writers : PutZadd(w)
    \/ \E w \in Writers : PutExpireList(w)
    \/ \E w \in Writers : PutHset(w)
    \/ \E w \in Writers : PutExpireThread(w)
    \/ \E thread_id \in ThreadIds : clear_thread_state(thread_id)
    \/ Tick

SpecStore == InitStore /\ [][NextStore]_vars

\* One writer whose puts may fail between two writes, and purges whose
\* scans may fail.
FirstWriter == "w1"

NextStoreFaults ==
    \/ \E thread_id \in ThreadIds : PutSet(FirstWriter, thread_id)
    \/ PutZadd(FirstWriter)
    \/ PutExpireList(FirstWriter)
    \/ PutHset(FirstWriter)
    \/ PutExpireThread(FirstWriter)
    \/ PutRaises(FirstWriter)
    \/ \E thread_id \in ThreadIds : ClearWithScanErrors(thread_id)
    \/ \E thread_id \in ThreadIds : ClearRaises(thread_id)
    \/ Tick

SpecStoreFaults == InitStore /\ [][NextStoreFaults]_vars

(***************************************************************************)
(* _clean_for_serialization applied to values.                             *)
(***************************************************************************)
CleanLeaves == { Prim("1"), Prim("s"), NoneValue, Handle, Function }

\* The key types of the dicts given to the cleaning.
KeyTypes == { "str", "bytes", "tuple" }

Rows(values) == UNION { [1..n -> values] : n \in 1..MaxItems }

\* Leaves, and lists and tuples of leaves.
FlatValues ==
    CleanLeaves \cup { ListOf(row) : row \in Rows(CleanLeaves) }
                \cup { TupleOf(row) : row \in Rows(CleanLeaves) }

\* A value held by one more container.
Wrapped(values) ==
    { ListOf(<< v >>) : v \in values }
      \cup { TupleOf(<< v >>) : v \in values }
      \cup { SetOf(<< v >>) : v \in values }
      \cup { ObjectOf(<< Entry("str", "attr", v) >>) : v \in values }
      \cup { DictOf(<< Entry(keytype, "key", v) >>) :
                keytype \in KeyTypes, v \in values }

RECURSIVE Nested(_)
Nested(depth) ==
    IF depth = 0 THEN FlatValues
    ELSE Nested(depth - 1) \cup Wrapped(Nested(depth - 1))

\* A state whose messages list holds a HUMAN message and an entry that
\* carries a runtime handle as an attribute.
HumanMessageObject ==
    ObjectOf(<< Entry("str", "type", Prim("human")),
                Entry("str", "content", Prim("r")) >>)

HandleEntry ==
    ObjectOf(<< Entry("str", "type", Prim("ai")),
                Entry("str", "content", Prim("q")),
                Entry("str", "task", Handle) >>)

MessagesState ==
    DictOf(<< Entry("str", "messages", ListOf(<< HumanMessageObject, HandleEntry >>)),
              Entry("str", "current_step", Prim("1")) >>)

\* The values the cleaning is applied to: the stored states and every value
\* nested to the given depth.
CleanInputs(depth) == Nested(depth) \cup StoreStates \cup { MessagesState }

InitClean ==
    /\ InitSession
    /\ Len(steps) = 1
    /\ steps[1].type = LINEAR_TEXT
    /\ max_turns = 1
    /\ redis = EmptyStore
    /\ ttl = NoTtl
    /\ now = 0
    /\ puts = [w \in Writers |-> Idle]
    /\ put_count = 0
    /\ purge_count = 0
    /\ last_op = NoOp
    /\ last_put = [thread_id \in ThreadIds |-> NoPut]
    /\ call \in { [fn |-> "_clean_for_serialization", obj |-> obj, done |-> FALSE,
                    result |-> NoneValue] : obj \in CleanInputs(MaxDepth) }

Clean ==
    /\ call.fn = "_clean_for_serialization"
    /\ ~call.done
    /\ call' = [call EXCEPT !.done = TRUE,
                             !.result = _clean_for_serialization(call.obj)]
    /\ UNCHANGED << graphVars, apiVars, storeVars >>

SpecClean == InitClean /\ [][Clean]_vars

(***************************************************************************)
(* Variable substitution (api/template.py).                                *)
(***************************************************************************)
Token(key) == << "{", "{" >> \o key \o << "}", "}" >>

\* The position of the first "}" of text at or after p, 0 without one.
RECURSIVE FirstClose(_, _)
FirstClose(text, p) ==
    IF p > Len(text) THEN 0
    ELSE IF text[p] = "}" THEN p
    ELSE FirstClose(text, p + 1)

\* The pattern \{\{([^}]+)\}\} matched at position p: the position of the
\* last character of the match, 0 without a match.
MatchEnd(text, p) ==
    LET close == FirstClose(text, p + 2)
    IN  IF /\ p + 1 <= Len(text)
           /\ text[p] = "{"
           /\ text[p + 1] = "{"
           /\ close > p + 2
           /\ close + 1 <= Len(text)
           /\ text[close + 1] = "}"
        THEN close + 1
        ELSE 0

\* var_map = {var.key: var.value for var in variables}: the last variable
\* of a key gives its value.
HasVar(variables, key) == \E i \in 1..Len(variables) : variables[i].key = key

VarMapGet(variables, key, default) ==
    IF HasVar(variables, key)
    THEN LET last == CHOOSE i \in 1..Len(variables) :
                         /\ variables[i].key = key
                         /\ \A j \in (i + 1)..Len(variables) : variables[j].key # key
         IN  variables[last].value
    ELSE default

\* re.sub(pattern, replace_var, text), from position p on.
RECURSIVE ReSub(_, _, _)
ReSub(text, p, variables) ==
    IF p > Len(text) THEN << >>
    ELSE LET end == MatchEnd(text, p)
         IN  IF end = 0
             THEN << text[p] >> \o ReSub(text, p + 1, variables)
             ELSE VarMapGet(variables, SubSeq(text, p + 2, end - 2),
                            SubSeq(text, p, end))
                    \o ReSub(text, end + 1, variables)

replace_variables(text, variables) ==
    IF variables = << >> THEN text ELSE ReSub(text, 1, variables)

apply_variable_substitution(template) ==
    IF template.variables = << >> THEN template
    ELSE LET sub(text) == replace_variables(text, template.variables)
         IN  [template EXCEPT
                !.theme = sub(@),
                !.system_prompt = sub(@),
                !.background_knowledge = sub(@),
                !.welcome_message = sub(@),
                !.end_message = sub(@),
                !.steps = [i \in 1..Len(@) |->
                             [@[i] EXCEPT !.content = sub(@),
                                          !.condition = sub(@)]]]

\* The texts, variables and templates the substitution is applied to.
SubstitutionChars == { "{", "}", "n" }

ScenarioTexts ==
    { << "H" >> \o Token(<< "n" >>) \o << "," >> \o Token(<< "t" >>),
      Token(<< "n" >>) \o Token(<< "x" >>),
      Token(<< "x" >>) }

SubstitutionTexts ==
    UNION { [1..n -> SubstitutionChars] : n \in 0..MaxTextLen } \cup ScenarioTexts

VariableValues ==
    { << "B" >>, << "{" >>, << "x" >> \o Token(<< "n" >>) }

VariableLists ==
    { << >> }
      \cup { << [key |-> << "n" >>, value |-> v] >> : v \in VariableValues }
      \cup { << [key |-> << "n" >>, value |-> v], [key |-> << "t" >>, value |-> w] >> :
                v \in VariableValues, w \in VariableValues }

TemplateFields ==
    { "theme", "system_prompt", "background_knowledge", "welcome_message",
      "end_message", "content", "condition" }

\* A template whose fields hold the token of "n", but for one field.
TemplateWith(field, text, variables) ==
    LET given(f) == IF f = field THEN text ELSE Token(<< "n" >>)
    IN  [theme |-> given("theme"),
         system_prompt |-> given("system_prompt"),
         background_knowledge |-> given("background_knowledge"),
         welcome_message |-> given("welcome_message"),
         end_message |-> given("end_message"),
         steps |-> << [content |-> given("content"),
                       condition |-> given("condition")] >>,
         variables |-> variables]

FieldOf(template, field) ==
    CASE field = "theme" -> template.theme
      [] field = "system_prompt" -> template.system_prompt
      [] field = "background_knowledge" -> template.background_knowledge
      [] field = "welcome_message" -> template.welcome_message
      [] field = "end_message" -> template.end_message
      [] field = "content" -> template.steps[1].content
      [] field = "condition" -> template.steps[1].condition

InitSubstitution ==
    /\ InitSession
    /\ Len(steps) = 1
    /\ steps[1].type = LINEAR_TEXT
    /\ max_turns = 1
    /\ redis = EmptyStore
    /\ ttl = NoTtl
    /\ now = 0
    /\ puts = [w \in Writers |-> Idle]
    /\ put_count = 0
    /\ purge_count = 0
    /\ last_op = NoOp
    /\ last_put = [thread_id \in ThreadIds |-> NoPut]
    /\ call \in { [fn |-> "apply_variable_substitution",
                    field |-> field,
                    template |-> TemplateWith(field, text, variables),
                    done |-> FALSE,
                    result |-> TemplateWith(field, text, variables)] :
                      field \in TemplateFields, text \in SubstitutionTexts,
                      variables \in VariableLists }

Substitute ==
    /\ call.fn = "apply_variable_substitution"
    /\ ~call.done
    /\ call' = [call EXCEPT !.done = TRUE,
                             !.result = apply_variable_substitution(call.template)]
    /\ UNCHANGED << graphVars, apiVars, storeVars >>

SpecSubstitution == InitSubstitution /\ [][Substitute]_vars

TypeOK ==
    /\ pc.kind \in {"q", "a", "interrupt", "route", "end_survey", "END"}
    /\ running \in BOOLEAN
    /\ current_step_finish \in BOOLEAN
    /\ max_turns \in 1..MaxTurnsBound
    /\ Len(steps) \in 1..MaxSteps

(***************************************************************************)
(* Claims.                                                                 *)
(***************************************************************************)
BaseMessages ==
    << SystemMessage(SYSTEM_PROMPT), AIMessage(WELCOME), HumanMessage(FIRST_MESSAGE) >>


\* The step just finished by its question node is being routed: node i_a
\* returned without asking the user.
RoutingFinishedStep == pc.kind = "route" /\ current_step_finish

\* The target the specification gives a branch value in a template of n steps.
ExpectedTarget(branch, n) ==
    IF \E k \in 1..n : branch = DigitText(k)
    THEN Node("q", (CHOOSE k \in 1..n : branch = DigitText(k)) - 1)
    ELSE EndSurveyNode

\* The branch of the evaluated step that the recorded verdict selects.
SelectedBranch ==
    LET branches == steps[condition_call.step + 1].branches
    IN  IF VerdictYes(condition_call.result) THEN branches[1] ELSE branches[2]

\* The evaluator was called and the branch its verdict selects exists.
BranchSelected ==
    /\ condition_call.made
    /\ Len(steps[condition_call.step + 1].branches)
         >= (IF VerdictYes(condition_call.result) THEN 1 ELSE 2)

\* text contains FINISH in any letter case
ContainsFinishAnyCase(text) ==
    \E k \in 0..(Len(text) - 6) :
        \A j \in 1..6 : text[k + j] \in { FINISH[j], LowerChar(FINISH[j]) }

\* C1: when question node i_q marks a LINEAR step i with i+1 < n finished,
\* the next question node executed is (i+1)_q: no step is skipped and step
\* i is not repeated.
C1_LinearAdvancesToNextStep ==
    [][ ( /\ RoutingFinishedStep
          /\ pc.step + 1 < Len(steps)
          /\ IsLinear(steps[pc.step + 1]) )
        => pc' = Node("q", pc.step + 1) ]_vars

\* C2: when the last step (index n-1) is LINEAR and is marked finished, the
\* next node executed is end_survey, and end_survey streams end_message; no
\* error ends the request.
C2_LastLinearStepEnds ==
    [][ /\ ( /\ RoutingFinishedStep
             /\ pc.step + 1 = Len(steps)
             /\ IsLinear(steps[pc.step + 1]) )
           => pc' = EndSurveyNode
        /\ pc.kind = "end_survey"
           => (frames' # << >> /\ Last(frames') = DataFrame(END_MESSAGE)) ]_vars

\* C3: two LINEAR steps, max_turns = 1, an oracle that never emits FINISH.
\* Whenever no request is in progress the session is in one of three
\* states: suspended after exactly one step-0 question (/chat/stream);
\* suspended after step 0 finished and one step-1 question was streamed
\* (first /chat/continue); or terminal after step 1 finished and
\* end_message was streamed (second /chat/continue).
C3_TwoLinearStepsScenario ==
    ( /\ Len(steps) = 2
      /\ \A k \in 1..2 : IsLinear(steps[k])
      /\ max_turns = 1
      /\ ~running )
    => \E q0 \in NoFinishTexts, q1 \in NoFinishTexts,
          r0 \in UserReplies, r1 \in UserReplies :
         LET first == BaseMessages \o << StepInstruction(0), AIMessage(q0) >>
             second == first \o << HumanMessage(r0), StepInstruction(1),
                                   AIMessage(q1) >>
             third == second \o << HumanMessage(r1), AIMessage(END_MESSAGE) >>
         IN  \/ /\ pc = Node("interrupt", 0)
                /\ messages = first
                /\ frames = << DataFrame(q0) >>
             \/ /\ pc = Node("interrupt", 1)
                /\ messages = second
                /\ frames = << DataFrame(q1) >>
             \/ /\ pc = EndNode
                /\ messages = third
                /\ frames = << DataFrame(END_MESSAGE) >>

\* C4: the Condition Evaluator is invoked for a CONDITION step i only when
\* question node i_q has marked step i finished; it is given step i's
\* predicate and the transcript collected during step i, which starts with
\* step i's instruction; verdict Y selects branches[0] of step i and N
\* selects branches[1] of step i.
C4_EvaluatorRunsOnFinishedStep ==
    [][ condition_call'.made
        => /\ RoutingFinishedStep
           /\ condition_call'.step = pc.step
           /\ condition_call'.condition = steps[pc.step + 1].condition
           /\ condition_call'.context[1] = << "ai", steps[pc.step + 1].content >>
           /\ pc' = ExpectedTarget(
                      IF VerdictYes(condition_call'.result)
                      THEN steps[pc.step + 1].branches[1]
                      ELSE steps[pc.step + 1].branches[2], Len(steps)) ]_vars

\* C5: in the template [LINEAR, CONDITION with branches ["END", "1"]] the
\* verdict is taken once the CONDITION step (index 1) has run its own
\* dialogue and finished; verdict Y then leads to end_survey and verdict N
\* to question node 0_q.
C5_ConditionStepBranchesAfterItsDialogue ==
    [][ ( /\ Len(steps) = 2
          /\ IsLinear(steps[1])
          /\ ~IsLinear(steps[2])
          /\ steps[2].branches = << END_TEXT, DigitText(1) >>
          /\ condition_call'.made )
        => /\ \E k \in 1..Len(messages) : messages[k] = StepInstruction(1)
           /\ RoutingFinishedStep
           /\ pc.step = 1
           /\ pc' = IF VerdictYes(condition_call'.result)
                    THEN EndSurveyNode ELSE Node("q", 0) ]_vars

C7_StepChangeResetsTranscript ==
    [][ ( /\ pc.kind = "q"
          /\ pc'.kind = "a"
          /\ ~current_step.label
          /\ current_step.index # pc.step )
        => /\ Len(messages') > Len(messages)
           /\ messages'[Len(messages) + 1] = StepInstruction(pc.step)
           /\ \/ current_step_messages' = << >>
              \/ current_step_messages' =
                   << StepInstruction(pc.step), AIMessage(response_content') >> ]_vars

\* C7 witness: a CONDITION step with index 2 jumped back to step 0 in the
\* middle of its dialogue, and 0_q has asked its first question again.
C7_Witness ==
    /\ pc = Node("a", 0)
    /\ Len(messages) >= 5
    /\ current_step_messages = SubSeq(messages, Len(messages) - 1, Len(messages))
    /\ current_step_messages[1] = StepInstruction(0)
    /\ messages[Len(messages) - 2].tag = "HUMAN"
    /\ messages[Len(messages) - 4] = AIMessage(StepContent(2))

\* C8: a question node marks its step finished if and only if the oracle
\* text contains FINISH in any letter case or the per-step transcript has at
\* least 2*max_turns + 1 entries when the check is made.
C8_FinishedIffFinishOrBound ==
    [][ (pc.kind = "q" /\ pc'.kind = "a")
        => ( current_step_finish'
             <=> \/ ContainsFinishAnyCase(response_content')
                 \/ Len(QuestionTranscript(pc.step, current_step,
                                           current_step_messages))
                      >= 2 * max_turns + 1 ) ]_vars

\* C8 witness: a step was marked finished by the turn bound although the
\* oracle text holds no FINISH.
C8_Witness ==
    /\ pc.kind = "a"
    /\ current_step_finish
    /\ response_content # << >>
    /\ ~ContainsFinishAnyCase(response_content)

\* C9: in every reachable state the length of current_step_messages is at
\* most 2*max_turns + 2.
C9_TranscriptBound == Len(current_step_messages) <= 2 * max_turns + 2

\* C9 witness: the transcript holds 2*max_turns + 1 messages after a reply.
C9_Witness ==
    /\ pc.kind = "route"
    /\ Len(current_step_messages) = 2 * max_turns + 1

\* C10: in every reachable session state current_step designates a step
\* index i with 0 <= i < n.
C10_CurrentStepIsANode ==
    current_step.index >= 0 /\ current_step.index < Len(steps)

\* s is a suffix of t
IsSuffix(s, t) ==
    Len(s) <= Len(t) /\ SubSeq(t, Len(t) - Len(s) + 1, Len(t)) = s

\* C11: in every reachable session state, including the state after
\* end_survey has executed, current_step_messages is a suffix of messages.
C11_TranscriptIsSuffixOfMessages == IsSuffix(current_step_messages, messages)

\* C12: every /chat/stream and /chat/continue execution ends with the
\* session suspended at an answer node awaiting a reply or having executed
\* end_survey; a request never ends at any other point.
C12_RequestEndsSuspendedOrEnded ==
    ~running => pc.kind \in {"interrupt", "END"}


\* C13: a /chat/continue for the suspended session is served by whichever
\* replica receives it, its cache holding the graph or not: the session is
\* taken from its latest checkpoint, the reply is appended and the answer
\* node's routing runs, as when the starting replica serves the request.
C13_AnyReplicaResumes ==
    [][ ( /\ ~running
          /\ pc.kind = "interrupt"
          /\ request' # request
          /\ request'.conversation_id = CONVERSATION_ID )
        => /\ request'.status = 200
           /\ running'
           /\ pc' = Node("route", pc.step)
           /\ \E user_input \in UserReplies :
                messages' = Append(checkpoint.messages, HumanMessage(user_input)) ]_vars

\* C14: a /chat/continue for a conversation that has neither a cached
\* graph nor a checkpoint is answered with a 4xx status and changes no
\* session state, no cache entry and no stored row.
C14_UnknownSessionRejected ==
    [][ ( /\ request' # request
          /\ request'.conversation_id = OTHER_CONVERSATION )
        => /\ request'.status \in 400..499
           /\ UNCHANGED graphVars
           /\ UNCHANGED << template_graph_cache, message_rows, chat_logs >> ]_vars

\* the messages that carry the reply of a concurrent request
ConcurrentReplyMessages == { HumanMessage(r) : r \in ConcurrentReplies }

\* C15: a /chat/continue served while another one is resuming the same
\* suspended session fails with a conflict status and its reply is applied
\* nowhere: the turn gets the one HUMAN message of the first request.
C15_ConcurrentContinueRejected ==
    concurrent.active
    => /\ concurrent.status \in 400..499
       /\ \A k \in 1..Len(concurrent.messages) :
            concurrent.messages[k] \notin ConcurrentReplyMessages
       /\ \A k \in 1..Len(checkpoint.messages) :
            checkpoint.messages[k] \notin ConcurrentReplyMessages

\* C16: when the oracle raises in a question node the request streams an
\* error frame as its last frame and ends; current_step, messages and
\* current_step_messages are those of the last checkpoint, which is kept,
\* and the question node stays pending.  The next /chat/continue runs that
\* node again on the same state: the reply already committed is not
\* appended a second time.
C16_QuestionFailureKeepsCheckpoint ==
    [][ /\ ( running /\ pc.kind = "q" /\ ~running' )
           => /\ frames' = Append(frames, ErrorFrame)
              /\ messages' = checkpoint.messages
              /\ current_step_messages' = checkpoint.current_step_messages
              /\ current_step' = checkpoint.current_step
              /\ checkpoint' = checkpoint
              /\ pc' = pc
        /\ ( ~running /\ pc.kind = "q" /\ running' )
           => /\ pc' = pc
              /\ messages' = messages
              /\ current_step_messages' = current_step_messages
              /\ current_step' = current_step
              /\ checkpoint' = checkpoint ]_vars

\* C16 witness: the oracle failed in the question node that follows a user
\* reply and /chat/continue was sent again: the reply has been stored as a
\* second row, the question node is running on the checkpointed state and
\* the reply is the last message, once.
C16_Witness ==
    /\ running
    /\ pc.kind = "q"
    /\ frames = << >>
    /\ message_rows = Len(messages) + 1
    /\ Last(messages) \in { HumanMessage(r) : r \in UserReplies }
    /\ messages[Len(messages) - 1].tag = "AI"
    /\ checkpoint.messages = messages

\* the verdict the specification falls back to: the predicate occurs in the
\* last user reply, letter case ignored
FallbackBranch(step, msgs) ==
    LET last == CHOOSE k \in 1..Len(msgs) :
                  /\ msgs[k].tag = "HUMAN"
                  /\ \A j \in (k + 1)..Len(msgs) : msgs[j].tag # "HUMAN"
    IN  IF Contains(Lower(msgs[last].content), Lower(step.condition))
        THEN step.branches[1]
        ELSE step.branches[2]

\* C17: when the oracle raises during condition evaluation the branch is
\* selected by the substring fallback and the session continues along it;
\* the failure alone never leads to end_survey.
C17_EvaluatorFailureFallsBack ==
    [][ ( /\ condition_call'.raised
          /\ Len(steps[condition_call'.step + 1].branches) >= 2 )
        => pc' = ExpectedTarget(
                   FallbackBranch(steps[condition_call'.step + 1], messages),
                   Len(steps)) ]_vars

\* the template holds a CONDITION step with fewer than two branches
HasShortCondition ==
    \E k \in 1..Len(steps) : ~IsLinear(steps[k]) /\ Len(steps[k].branches) < 2

\* C18: for a template with a CONDITION step of fewer than two branches no
\* graph instance is cached and no node is executed: nothing is appended to
\* the seed messages and nothing is streamed.
C18_ShortBranchesRejected ==
    HasShortCondition
    => /\ \A replica \in Replicas : ~Cached(replica, CONVERSATION_ID)
       /\ messages = BaseMessages
       /\ frames = << >>
       /\ pc = Node("q", 0)

\* what the checkpoint store holds for a purged thread
PurgedCheckpoint == [purged |-> TRUE]

\* C19: once end_survey has executed, the final transcript has been handed
\* to the chat log writer and no checkpoint of the thread remains.
C19_EndSurveyLogsThenPurges ==
    pc = EndNode
    => /\ chat_logs = << messages >>
       /\ checkpoint = PurgedCheckpoint


\* C20: once put(T, s) has completed, no purge and no write of another put
\* on T having come in between, the record checkpoint:{T}:{cid} exists,
\* list:{T} holds cid and thread:{T} names cid as latest_checkpoint, each
\* key with a TTL counted from the put when a TTL is configured; and get on
\* T returns what that put stored for s until the next put or purge of T
\* (or until the TTL of a key has run out).
C20_PutThenGetLatest ==
    /\ \A w \in Writers :
         (last_op.writer = w /\ puts[w].pc = "done"
            /\ last_put[last_op.thread_id].known) =>
           LET checkpoint_key ==
                   _get_checkpoint_key(puts[w].thread_id, puts[w].checkpoint_id)
               list_key == _get_checkpoint_list_key(puts[w].thread_id)
               thread_key == _get_thread_key(puts[w].thread_id)
           IN  /\ { checkpoint_key, list_key, thread_key } \subseteq DOMAIN redis
               /\ puts[w].checkpoint_id \in DOMAIN redis[list_key].val
               /\ redis[thread_key].val.latest_checkpoint = puts[w].checkpoint_id
               /\ ttl.configured =>
                    \A key \in { checkpoint_key, list_key, thread_key } :
                        /\ redis[key].expire.expires
                        /\ redis[key].expire.at >= puts[w].started + ttl.seconds
    /\ \A thread_id \in ThreadIds :
         last_put[thread_id].known =>
           get(redis, thread_id) =
               _clean_for_serialization(last_put[thread_id].checkpoint)

\* The keys of a thread: its list key, its summary key and its records.
KeysOf(thread_id) ==
    { _get_checkpoint_list_key(thread_id), _get_thread_key(thread_id) }
      \cup { _get_checkpoint_key(thread_id, CheckpointIdTexts[i]) :
               i \in 1..Len(CheckpointIdTexts) }

\* C21: once clear_thread_state(T) has returned without error, and no put
\* is under way, the store holds no record, list key or summary key of T,
\* records that no list names included.
C21_PurgeLeavesNoKey ==
    (last_op.op = "purge" /\ \A w \in Writers : ~InFlight(puts[w]))
      => DOMAIN redis \cap KeysOf(last_op.thread_id) = {}

\* C22: while a put on T is under way or after it has raised, with no
\* other write, purge or expiry in between, the summary of T names a
\* checkpoint whose record exists and get on T returns either what it
\* returned before the put or the new checkpoint; after a put that raised
\* it returns what it returned before the put.
C22_PutIsAtomic ==
    \A w \in Writers :
        ((InFlight(puts[w]) \/ puts[w].pc = "raised") /\ ~puts[w].disturbed) =>
          LET thread_id == puts[w].thread_id
              thread_key == _get_thread_key(thread_id)
          IN  /\ thread_key \in DOMAIN redis =>
                   _get_checkpoint_key(thread_id,
                                       redis[thread_key].val.latest_checkpoint)
                       \in DOMAIN redis
              /\ get(redis, thread_id) \in
                     { puts[w].before, _clean_for_serialization(puts[w].checkpoint) }
              /\ puts[w].pc = "raised" => get(redis, thread_id) = puts[w].before

\* The primitive leaves a value holds in its dicts, lists, tuples and
\* object attributes, each with the keys and attribute names that lead to
\* it, in the order of the value.
RECURSIVE PrimitiveLeaves(_, _)
RECURSIVE LeavesFrom(_, _, _, _)
LeavesFrom(obj, path, i, n) ==
    IF i > n THEN << >>
    ELSE (IF obj.k \in { "list", "tuple" }
          THEN PrimitiveLeaves(obj.items[i], path)
          ELSE IF obj.k = "dict"
          THEN PrimitiveLeaves(obj.entries[i].val,
                               Append(path, << obj.entries[i].keytype,
                                               obj.entries[i].key >>))
          ELSE PrimitiveLeaves(obj.attrs[i].val,
                               Append(path, << "str", obj.attrs[i].key >>)))
         \o LeavesFrom(obj, path, i + 1, n)

PrimitiveLeaves(obj, path) ==
    CASE obj.k \in { "prim", "none" } -> << [path |-> path, leaf |-> obj] >>
      [] obj.k \in { "list", "tuple" } -> LeavesFrom(obj, path, 1, Len(obj.items))
      [] obj.k = "dict" -> LeavesFrom(obj, path, 1, Len(obj.entries))
      [] obj.k = "object" -> LeavesFrom(obj, path, 1, Len(obj.attrs))
      [] OTHER -> << >>

RECURSIVE IsSubsequence(_, _)
IsSubsequence(s, t) ==
    IF s = << >> THEN TRUE
    ELSE IF t = << >> THEN FALSE
    ELSE IF Head(s) = Head(t) THEN IsSubsequence(Tail(s), Tail(t))
    ELSE IsSubsequence(s, Tail(t))

Cleaned == call.fn = "_clean_for_serialization" /\ call.done

\* C23: every primitive leaf the input of the cleaning holds in a dict, a
\* list, a tuple or an object attribute is in the output under the same
\* keys and attribute names and in the same order.
C23_CleaningKeepsPrimitiveLeaves ==
    Cleaned => IsSubsequence(PrimitiveLeaves(call.obj, << >>),
                             PrimitiveLeaves(call.result, << >>))

\* A runtime handle somewhere in a value.
RECURSIVE HoldsHandle(_)
HoldsHandle(obj) ==
    CASE obj.k = "handle" -> TRUE
      [] obj.k \in { "list", "tuple", "set" } ->
           \E i \in 1..Len(obj.items) : HoldsHandle(obj.items[i])
      [] obj.k = "dict" -> \E i \in 1..Len(obj.entries) : HoldsHandle(obj.entries[i].val)
      [] obj.k = "object" -> \E i \in 1..Len(obj.attrs) : HoldsHandle(obj.attrs[i].val)
      [] OTHER -> FALSE

\* The value a cleaned dict holds under a str key, NoneValue without one.
ValueAt(dict, key) ==
    LET found == SelectSeq(dict.entries, LAMBDA e : e.keytype = "str" /\ e.key = key)
    IN  IF found = << >> THEN NoneValue ELSE found[1].val

HasKey(dict, key) ==
    \E i \in 1..Len(dict.entries) : dict.entries[i].key = key

\* C24: the cleaned output holds no event loop, future, task, coroutine,
\* function, method or generator at any depth and in any container; of a
\* messages list with a HUMAN message and an entry carrying a handle
\* attribute, the HUMAN message keeps its tag and content and the entry
\* has no handle attribute.
C24_CleanedHoldsNoHandle ==
    Cleaned =>
      /\ ~HoldsHandle(call.result)
      /\ call.obj = MessagesState =>
           LET cleaned_messages == ValueAt(call.result, "messages")
           IN  /\ cleaned_messages.k = "list"
               /\ Len(cleaned_messages.items) = 2
               /\ ValueAt(cleaned_messages.items[1], "type") = Prim("human")
               /\ ValueAt(cleaned_messages.items[1], "content") = Prim("r")
               /\ ~HasKey(cleaned_messages.items[2], "task")

Substituted == call.fn = "apply_variable_substitution" /\ call.done

IsPrefixAt(text, p, token) ==
    /\ p + Len(token) - 1 <= Len(text)
    /\ SubSeq(text, p, p + Len(token) - 1) = token

\* A text with every occurrence of the token of a bound key replaced by the
\* key's value, read from the left, and everything else kept.
RECURSIVE EveryOccurrenceReplaced(_, _, _)
EveryOccurrenceReplaced(text, p, variables) ==
    IF p > Len(text) THEN << >>
    ELSE IF \E i \in 1..Len(variables) : IsPrefixAt(text, p, Token(variables[i].key))
    THEN LET i == CHOOSE j \in 1..Len(variables) :
                      IsPrefixAt(text, p, Token(variables[j].key))
         IN  VarMapGet(variables, variables[i].key, << >>)
               \o EveryOccurrenceReplaced(text, p + Len(Token(variables[i].key)), variables)
    ELSE << text[p] >> \o EveryOccurrenceReplaced(text, p + 1, variables)

\* C25: in theme, system_prompt, background_knowledge, welcome_message,
\* end_message and each step's content and condition, every occurrence of
\* {{key}} with a bound key is replaced by the bound value and every other
\* part of the text, tokens without a binding included, is unchanged.
C25_SubstitutionReplacesEveryBoundToken ==
    Substituted =>
      \A field \in TemplateFields :
          FieldOf(call.result, field)
            = EveryOccurrenceReplaced(FieldOf(call.template, field), 1,
                                      call.template.variables)

\* C26: substituting the result of a substitution again with the same
\* bindings returns the same text.
C26_SubstitutionIsIdempotent ==
    Substituted =>
      \A field \in TemplateFields :
          replace_variables(FieldOf(call.result, field), call.template.variables)
            = FieldOf(call.result, field)

\* A JSON string literal: quotes around a body in which the quote, the
\* backslash and the newline only occur escaped.
RECURSIVE IsJsonBody(_, _)
IsJsonBody(body, p) ==
    IF p > Len(body) THEN TRUE
    ELSE IF body[p] = "\\"
    THEN /\ p + 1 <= Len(body)
         /\ body[p + 1] \in { "\"", "\\", "n" }
         /\ IsJsonBody(body, p + 2)
    ELSE /\ body[p] \notin { "\"", "\n" }
         /\ IsJsonBody(body, p + 1)

IsJsonString(s) ==
    /\ Len(s) >= 2
    /\ s[1] = "\""
    /\ s[Len(s)] = "\""
    /\ IsJsonBody(SubSeq(s, 2, Len(s) - 1), 1)

IsDataChunk(chunk) ==
    /\ Len(chunk) >= Len(DATA_PREFIX) + 4
    /\ SubSeq(chunk, 1, Len(DATA_PREFIX)) = DATA_PREFIX
    /\ SubSeq(chunk, Len(chunk) - 1, Len(chunk)) = << "\n", "\n" >>
    /\ IsJsonString(SubSeq(chunk, Len(DATA_PREFIX) + 1, Len(chunk) - 2))

\* C27: every chunk of a response is "data: ", a JSON-encoded string and two
\* newlines; a step in which an exception leaves the graph emits one frame
\* with the error message, and an error frame is the last frame of its
\* response, which has ended.
C27_ChunksAreDataFramesErrorLast ==
    /\ [](\A i \in 1..Len(frames) :
             /\ IsDataChunk(frames[i])
             /\ frames[i] = ErrorFrame => (i = Len(frames) /\ ~running))
    /\ [][ (RouteIndexError \/ QuestionOracleRaises)
             => (frames' = Append(frames, ErrorFrame) /\ ~running') ]_vars

\* C27 witness: a response that streamed the text of a node and then ended
\* with the error frame.
C27_Witness ==
    /\ ~running
    /\ Len(frames) >= 2
    /\ Last(frames) = ErrorFrame
    /\ frames[1] # ErrorFrame
    /\ IsDataChunk(frames[1])

HumanCount(msgs) == Cardinality({ k \in 1..Len(msgs) : msgs[k].tag = "HUMAN" })

\* C28: under an oracle that never emits FINISH, a question node marks its
\* step finished exactly when the per-step transcript holds
\* 2*max_turns + 1 messages, the instruction and max_turns question/reply
\* pairs, and it never tests a longer transcript.
C28_FinishAfterMaxTurnsReplies ==
    [][ (pc.kind = "q" /\ pc'.kind = "a")
        => LET transcript == QuestionTranscript(pc.step, current_step,
                                                current_step_messages)
           IN  /\ Len(transcript) <= 2 * max_turns + 1
               /\ current_step_finish' <=> Len(transcript) = 2 * max_turns + 1
               /\ current_step_finish'
                    => /\ transcript[1] = StepInstruction(pc.step)
                       /\ HumanCount(transcript) = max_turns
                       /\ \A k \in 1..max_turns :
                            /\ transcript[2 * k].tag = "AI"
                            /\ transcript[2 * k + 1].tag = "HUMAN" ]_vars

\* C28 witness: with the largest max_turns, the first step was marked
\* finished by a question node whose oracle text holds no FINISH, after
\* max_turns replies.
C28_Witness ==
    /\ pc = Node("a", 0)
    /\ current_step_finish
    /\ current_step_messages = << >>
    /\ ~Contains(Upper(response_content), FINISH)
    /\ max_turns = MaxTurnsBound
    /\ Len(messages) = Len(BaseMessages) + 2 * max_turns + 1
    /\ HumanCount(messages) = 1 + max_turns

\* C29: when the suspended node i_a is resumed with a user reply, the reply
\* is appended as a HUMAN message to messages and to current_step_messages,
\* and the node that runs next is i_q of the same step, for a LINEAR and for
\* a CONDITION step.
C29_ResumeAppendsAndReentersStep ==
    [][ /\ (~running /\ pc.kind = "interrupt" /\ running')
           => \E user_input \in UserReplies :
                /\ messages' = Append(messages, HumanMessage(user_input))
                /\ current_step_messages'
                     = Append(current_step_messages, HumanMessage(user_input))
                /\ pc' = Node("route", pc.step)
        /\ (running /\ pc.kind = "route" /\ ~current_step_finish)
           => (running' /\ pc' = Node("q", pc.step)) ]_vars

\* C30: a question node that does not mark its step finished appends the
\* oracle's text as one ASSISTANT message to messages and to
\* current_step_messages (after the step's instruction, when the step is
\* entered); when a question node returns, current_step_messages is empty if
\* and only if the step was marked finished.
C30_QuestionAppendsOrClears ==
    [][ (pc.kind = "q" /\ pc'.kind = "a")
        => LET ai == AIMessage(response_content')
               instruction == StepInstruction(pc.step)
           IN  /\ ~current_step_finish'
                    => /\ messages' \in { Append(messages, ai),
                                          messages \o << instruction, ai >> }
                       /\ current_step_messages'
                            \in { Append(current_step_messages, ai),
                                  << instruction, ai >> }
                       /\ Len(messages') - Len(messages)
                            = Len(current_step_messages')
                                - Len(ResetOnStepChange(pc.step, current_step,
                                                        current_step_messages))
               /\ current_step_messages' = << >> <=> current_step_finish' ]_vars

\* C30 witness: a question node returned its second question of a step: the
\* transcript holds the instruction, a question, a reply and the new text.
C30_Witness ==
    /\ pc.kind = "a"
    /\ ~current_step_finish
    /\ Len(current_step_messages) = 4
    /\ current_step_messages[3].tag = "HUMAN"
    /\ Last(current_step_messages) = AIMessage(response_content)
    /\ Last(messages) = AIMessage(response_content)

\* C31: when end_survey executes, the end message is appended as the last
\* ASSISTANT message, the transcript given to the chat log writer is the
\* whole message list with it, and the state update is made whether the
\* write succeeds or fails.
C31_EndSurveyAppendsEndMessage ==
    [][ (pc.kind = "end_survey" /\ pc' # pc)
        => /\ pc' = EndNode
           /\ messages' = Append(messages, AIMessage(END_MESSAGE))
           /\ Last(messages').tag = "AI"
           /\ current_step_finish'
           /\ checkpoint'.messages = messages'
           /\ chat_logs' \in { chat_logs, Append(chat_logs, messages') } ]_vars

\* C31 witness: end_survey has executed while the chat log write failed; the
\* end message is the last message of the session.
C31_Witness ==
    /\ pc = EndNode
    /\ chat_logs = << >>
    /\ Last(messages) = AIMessage(END_MESSAGE)
    /\ checkpoint.messages = messages

\* C32: when the predicate of a CONDITION step is evaluated while the
\* per-step transcript is empty, the branch taken is branches[1] whatever
\* the oracle answers, and end_survey when branches[1] does not exist.
C32_EmptyTranscriptTakesSecondBranch ==
    [][ ( /\ running
          /\ pc.kind = "route"
          /\ current_step.index < Len(steps)
          /\ ~IsLinear(steps[current_step.index + 1])
          /\ current_step_messages = << >>
          /\ pc' # pc )
        => LET step == steps[current_step.index + 1]
           IN  pc' = IF Len(step.branches) < 2 THEN EndSurveyNode
                     ELSE RouteConditionStep(step, << "N" >>, Len(steps)) ]_vars

ECHO_PREFIX == << "#", " ", "G", "L" >>

StartsWith(text, prefix) ==
    Len(text) >= Len(prefix) /\ SubSeq(text, 1, Len(prefix)) = prefix

\* C33: an oracle text that starts with "# 目标" is discarded by the question
\* node, which asks the oracle once more: such a text is never the one the
\* node uses, is never appended to messages and is never streamed.
C33_EchoedInstructionIsDiscarded ==
    /\ ~StartsWith(response_content, ECHO_PREFIX)
    /\ \A k \in 1..Len(messages) :
         messages[k].tag = "AI" => ~StartsWith(messages[k].content, ECHO_PREFIX)
    /\ \A i \in 1..Len(frames) :
         \A text \in EchoTexts : frames[i] # DataFrame(text)

\* The node a step index designates: its question node, end_survey beyond
\* the last step.
DesignatedNode(cs) ==
    IF cs.index < Len(steps) THEN Node("q", cs.index) ELSE EndSurveyNode

\* C34: after a node has executed, the node that runs next is the one the
\* resulting state's current_step designates: the routing after an answer
\* node reads current_step only and calls no oracle.
C34_RoutingReadsCurrentStepOnly ==
    [][ (running /\ pc.kind = "route" /\ running' /\ pc' # pc)
        => /\ pc' = DesignatedNode(current_step)
           /\ ~condition_call'.made ]_vars

\* The stored checkpoint of a thread and a checkpoint id, None without one.
RecordOf(thread_id, checkpoint_id) ==
    LET checkpoint_key == _get_checkpoint_key(thread_id, checkpoint_id)
    IN  IF checkpoint_key \in DOMAIN redis
        THEN loads(redis[checkpoint_key].val).checkpoint
        ELSE NoneValue

\* The ids of a thread's list that no other id of the list outscores.
HighestScored(thread_id) ==
    LET list_key == _get_checkpoint_list_key(thread_id)
    IN  IF list_key \in DOMAIN redis
        THEN { m \in DOMAIN redis[list_key].val :
                 \A other \in DOMAIN redis[list_key].val :
                     redis[list_key].val[other] <= redis[list_key].val[m] }
        ELSE {}

\* C35: get on a thread without a checkpoint id takes the id from the
\* thread summary's latest_checkpoint, without a summary the id the list
\* scores highest, and returns None without both; it never returns a
\* checkpoint that was put on another thread.
C35_GetLatestResolution ==
    \A thread_id \in ThreadIds :
        LET thread_key == _get_thread_key(thread_id)
            result == get(redis, thread_id)
        IN  /\ thread_key \in DOMAIN redis
                 => result = RecordOf(thread_id, redis[thread_key].val.latest_checkpoint)
            /\ (thread_key \notin DOMAIN redis /\ HighestScored(thread_id) # {})
                 => \E m \in HighestScored(thread_id) : result = RecordOf(thread_id, m)
            /\ (thread_key \notin DOMAIN redis /\ HighestScored(thread_id) = {})
                 => result = NoneValue
            /\ \A w \in Writers :
                 (puts[w].pc # "idle" /\ puts[w].thread_id # thread_id /\ result # NoneValue)
                   => ValueAt(result, "id") # Prim(puts[w].checkpoint_id)

\* C35 witness: a thread has no summary, its list holds two ids of different
\* scores and get returns the checkpoint of the higher one.
C35_Witness ==
    \E thread_id \in ThreadIds :
        LET list_key == _get_checkpoint_list_key(thread_id)
        IN  /\ _get_thread_key(thread_id) \notin DOMAIN redis
            /\ list_key \in DOMAIN redis
            /\ Cardinality(DOMAIN redis[list_key].val) = 2
            /\ Cardinality(HighestScored(thread_id)) = 1
            /\ get(redis, thread_id) # NoneValue

\* The targets _build_graph declares for every answer node: the question
\* nodes of the steps and end_survey.
DeclaredTargets == { Node("q", j) : j \in 0..(Len(steps) - 1) } \cup { EndSurveyNode }

\* C36: every label the routing of an answer node returns, for every state
\* and oracle verdict, is a declared target: a question node j_q with
\* 0 <= j < n, or end_survey.
C36_RoutingNamesDeclaredTargets ==
    [][ (running /\ pc.kind = "route" /\ running' /\ pc' # pc)
        => pc' \in DeclaredTargets ]_vars

\* C36 witness: a CONDITION step selected a branch whose number lies outside
\* the step list, and the routing returned end_survey.
C36_Witness ==
    /\ pc = EndSurveyNode
    /\ condition_call.made
    /\ ~condition_call.raised
    /\ LET next_step_result ==
               GetNextStep(steps[condition_call.step + 1], condition_call.result)
       IN  /\ next_step_result.kind = "int"
           /\ next_step_result.value \notin 0..(Len(steps) - 1)

\* C37: every frame streamed to the client carries a text the oracle
\* produced, the end message or an error message; the instruction of a step
\* (its content) is never streamed, also when the oracle answers FINISH on
\* a step just entered.
C37_InstructionIsNeverStreamed ==
    \A i \in 1..Len(frames) :
        /\ \/ frames[i] \in { DataFrame(text) : text \in OracleTexts }
           \/ frames[i] = DataFrame(END_MESSAGE)
           \/ frames[i] = ErrorFrame
        /\ \A k \in 1..Len(steps) : frames[i] # DataFrame(steps[k].content)

\* C40: two sessions with distinct (template_id, conversation_id) pairs
\* never share an entry of the graph cache: storing the graph for one pair
\* never replaces the entry another pair stored, and /chat/continue for a
\* pair obtains only the graph stored for that pair.
C40_CacheEntriesAreNotShared ==
    [][ /\ \A replica \in Replicas :
             \A key \in DOMAIN template_graph_cache[replica] :
                /\ key \in DOMAIN template_graph_cache'[replica]
                /\ template_graph_cache'[replica][key]
                     = template_graph_cache[replica][key]
        /\ (call'.fn = "continue_survey" /\ call'.found)
             => call'.graph = << call'.template_id, call'.conversation_id >> ]_vars

\* C38: when two puts on one thread have interleaved their writes in any
\* order and both have returned, with no purge and no expiry on the way,
\* the thread summary's latest_checkpoint names an entry of the thread's
\* list that no other entry outscores.
C38_InterleavedPutsAgreeOnLatest ==
    \A thread_id \in ThreadIds :
        ( /\ \A w \in Writers : puts[w].pc = "done" /\ puts[w].thread_id = thread_id
          /\ ~ttl.configured
          /\ purge_count = 0 )
        => /\ _get_thread_key(thread_id) \in DOMAIN redis
           /\ redis[_get_thread_key(thread_id)].val.latest_checkpoint
                \in HighestScored(thread_id)

\* C39: clear_thread_state(T) deletes only keys of thread T: every record,
\* list key and summary key of every other thread U, also one T is a
\* prefix of, one holding ':' and when T holds glob characters, is in the
\* store afterwards as it was before.
C39_PurgeDeletesOnlyOwnKeys ==
    [][ (last_op'.op = "purge" /\ purge_count' = purge_count + 1)
        => \A thread_id \in ThreadIds \ { last_op'.thread_id } :
             \A key \in KeysOf(thread_id) \cap DOMAIN redis :
                /\ key \in DOMAIN redis'
                /\ redis'[key] = redis[key] ]_vars

=============================================================================
